---- MODULE Spec2Model ----
(***************************************************************************)
(* staticomment: a model of the repository synchronizer (src/git.go), the  *)
(* comment handler (src/unnamed/part_004), the process start-up            *)
(* (src/main.go) and the rate limiter (src/spam.go).                       *)
(*                                                                         *)
(* Strings that the code takes apart (the repo URL) are sequences of       *)
(* tokens; every git subprocess is a pair of steps (launch, exit) so that  *)
(* two subprocesses in flight at once is a state of the model.             *)
(***************************************************************************)
EXTENDS Integers, Sequences, FiniteSets, TLC

\* ---------------------------------------------------------------- bounds
NHandlers == 3        \* concurrent request goroutines of the server
NCallers == 2         \* goroutines calling the GitRepo methods directly
MaxCalls == 1         \* method calls each such goroutine makes
MaxClock == 1         \* seconds the wall clock may advance while serving
NRand == 2            \* distinct values randomHex may return
MaxTime == 5          \* rate limiter: last instant of the clock
MaxWindow == 2        \* rate limiter: largest configured window
MaxMax == 2           \* rate limiter: largest configured maximum
NIPs == 2             \* rate limiter: client addresses
MaxAllow == 4         \* rate limiter: Allow calls made
MaxSlugLen == 3       \* characters of a slug a client sends
MaxBodyWords == 4     \* words of a comment body
MaxMaxLinks == 2      \* largest configured maximum of links

\* ------------------------------------------------------ program constants
pushMaxRetries == 3
defaultMaxBodyLen == 10000

\* ------------------------------------------------------------- universes
Main == 0
Handlers == 1..NHandlers
Callers == (NHandlers + 1)..(NHandlers + NCallers)
Threads == {Main} \cup Handlers \cup Callers
Free == -1

Slugs == {<<"p">>}
RandVals == 0..(NRand - 1)
Paths == Slugs \X (0..MaxClock) \X RandVals
NoPath == <<>>
NoFile == <<>>

VARIABLES
    cfg,          \* *Config: GitRepo, SSHInsecure, AllowedOrigins, PostsPath
    inbox,        \* per connection: the requests a client may send on it
    knownHosts,   \* /app/.ssh/known_hosts: a sequence of lines <<host, key>>
    repo,         \* /app/repo: [dir, git, identity, rebase]
    wt,           \* working tree: path -> content, NoFile when absent
    index,        \* git index of the working copy
    head,         \* last local commit
    remote,       \* the branch on the remote
    mu,           \* GitRepo.mu: the goroutine holding it, or Free
    running,      \* git subprocesses in flight: [t, cmd]
    pc,           \* each goroutine's position
    attempt,      \* CommitAndPush's loop variable
    req,          \* the request a handler is serving
    path,         \* relPath / filePath of the call
    result,       \* the error a GitRepo method returned ("nil" for none)
    resp,         \* the HTTP response a handler sent
    log,          \* per call: the subprocesses that exited, <<cmd, ok>>
    calls,        \* method calls a direct caller has made
    clock,        \* time.Now(), in seconds
    rl            \* the rate limiter and the history of its Allow calls

gitVars == <<repo, wt, index, head, remote>>
thrVars == <<pc, attempt, req, path, result, resp, log, calls>>
vars == <<cfg, inbox, knownHosts, repo, wt, index, head, remote, mu, running,
          pc, attempt, req, path, result, resp, log, calls, clock, rl>>

\* ------------------------------------------------------- string helpers
Contains(s, tok) == \E i \in 1..Len(s) : s[i] = tok

FirstIndex(s, tok) == CHOOSE i \in 1..Len(s) : s[i] = tok /\ \A j \in 1..(i - 1) : s[j] # tok

\* strings.SplitN(s, tok, 2)[1]
AfterFirst(s, tok) == SubSeq(s, FirstIndex(s, tok) + 1, Len(s))

\* strings.SplitN(s, tok, 2)[0]
BeforeFirst(s, tok) == IF Contains(s, tok) THEN SubSeq(s, 1, FirstIndex(s, tok) - 1) ELSE s

\* url.Parse(repo).Hostname(): the authority after "://", without user info
\* and port; "" when there is no authority or the URL does not parse (the
\* token "%zz" stands for an invalid escape).
urlHostname(u) ==
    IF Contains(u, "%zz") \/ ~Contains(u, "://") THEN <<>>
    ELSE LET auth == BeforeFirst(AfterFirst(u, "://"), "/")
             hp == IF Contains(auth, "@") THEN AfterFirst(auth, "@") ELSE auth
         IN BeforeFirst(hp, ":")

extractHost(repoURL) ==
    IF Contains(repoURL, "@") /\ Contains(repoURL, ":") /\ ~Contains(repoURL, "://")
    THEN BeforeFirst(AfterFirst(repoURL, "@"), ":")
    ELSE urlHostname(repoURL)

\* The remote is reached over SSH: scp-like user@host:path, or ssh://.
IsSSHRemote(repoURL) ==
    \/ Contains(repoURL, "@") /\ Contains(repoURL, ":") /\ ~Contains(repoURL, "://")
    \/ Len(repoURL) >= 2 /\ repoURL[1] = "ssh" /\ repoURL[2] = "://"

hostInKnownHosts(kh, host) == \E i \in 1..Len(kh) : kh[i][1] = host


\* ------------------------------------------------------------ git state
EmptyTree == [p \in Paths |-> NoFile]

Hosts == {<<"h1">>}
RepoSSH == <<"git", "@", "h1", ":", "r">>
RepoHTTPS == <<"https", "://", "h1", "/", "r">>
RepoLocal == <<"/", "srv", "/", "r">>
RepoURLs == {RepoSSH, RepoHTTPS, RepoLocal, <<>>}

\* What ssh-keyscan prints when it exits 0: the host's current key.
ScanOutputs(host) == {<<<<host, "new">>>>}

\* The known_hosts file the image ships (github.com only), one holding a
\* stale key of the configured host, and none.
InitKnownHosts == {<<>>, <<<<<<"github.com">>, "old">>>>, <<<<<<"h1">>, "old">>>>}

\* repo.authors and repo.messages: the author names and the messages of the
\* commits made in the working copy.
NoRepo == [dir |-> FALSE, git |-> FALSE, identity |-> {}, rebase |-> FALSE, authors |-> {},
           messages |-> {}]
ClonedRepo == [dir |-> TRUE, git |-> TRUE, identity |-> {}, rebase |-> FALSE, authors |-> {},
               messages |-> {}]
Identity == {"user.email", "user.name"}

\* The author name git gives a commit: user.name of the working copy's
\* configuration and, without one, whatever name the environment provides
\* (global configuration, GIT_AUTHOR_NAME, the account's name).
Author(r) == IF "user.name" \in r.identity THEN "staticomment" ELSE "ambient"

\* git refuses "pull --rebase" on a working copy with staged changes or with
\* modified tracked files, and while a rebase is in progress.
CleanTree == index = head /\ \A p \in Paths : head[p] # NoFile => wt[p] = head[p]

Unpushed == head # remote

\* ------------------------------------------------------------ positions
LockPcs == {"clone_lock", "pull_lock", "cap_lock"}
ClonePcs == {"clone_ensure", "clone_stat", "clone_pull", "clone_run1", "clone_refresh",
             "clone_rm", "clone_run2", "clone_cfg_email", "clone_cfg_name"}
PullPcs == {"pull_pull"}
CapPcs == {"cap_pull0", "cap_add", "cap_commit", "cap_push", "cap_pullR", "cap_abort"}

\* The git subprocess g.run launches at each position.
CmdAt(p) ==
    CASE p \in {"clone_pull", "pull_pull", "cap_pull0", "cap_pullR"} -> "pull"
      [] p \in {"clone_run1", "clone_run2"} -> "clone"
      [] p \in {"clone_cfg_email", "clone_cfg_name"} -> "config"
      [] p = "cap_add" -> "add"
      [] p = "cap_commit" -> "commit"
      [] p = "cap_push" -> "push"
      [] p = "cap_abort" -> "rebase-abort"
      [] OTHER -> "none"

ProcPcs == {p \in ClonePcs \cup PullPcs \cup CapPcs : CmdAt(p) # "none"}

Running(t) == \E r \in running : r.t = t
Proc(t) == [t |-> t, cmd |-> CmdAt(pc[t])]

\* Inside a method: between Lock and the deferred Unlock.
InMethod(t) == pc[t] \in ClonePcs \cup PullPcs \cup CapPcs \cup {"ret"}


\* ------------------------------------------------- GitRepo: control flow
Pos(p, r, a) == [pc |-> p, res |-> r, att |-> a]

\* A retry loop that tests its bound one step late.
AfterPull_OneMore(p, ok, att) ==
    CASE p \in {"clone_pull", "pull_pull"} ->
            Pos("ret", IF ok THEN "nil" ELSE "git pull", att)
      [] p = "cap_pull0" ->
            IF ok THEN Pos("cap_add", "nil", att)
            ELSE Pos("ret", "git pull before commit", att)
      [] p = "cap_pullR" ->
            IF ~ok THEN Pos("cap_abort", "git pull during push retry", att)
            ELSE IF att + 1 <= pushMaxRetries THEN Pos("cap_push", "nil", att + 1)
            ELSE Pos("ret", "git push failed after attempts", att + 1)

\* A retry loop that goes on to the next push when the rebase failed.
AfterPull_RetryAnyway(p, ok, att) ==
    CASE p \in {"clone_pull", "pull_pull"} ->
            Pos("ret", IF ok THEN "nil" ELSE "git pull", att)
      [] p = "cap_pull0" ->
            IF ok THEN Pos("cap_add", "nil", att)
            ELSE Pos("ret", "git pull before commit", att)
      [] p = "cap_pullR" ->
            IF att + 1 < pushMaxRetries THEN Pos("cap_push", "nil", att + 1)
            ELSE IF ~ok THEN Pos("cap_abort", "git pull during push retry", att)
            ELSE Pos("ret", "git push failed after attempts", att + 1)

\* Where a method goes when "git pull --rebase" exits at position p.
AfterPull(p, ok, att) ==
    CASE p \in {"clone_pull", "pull_pull"} ->
            Pos("ret", IF ok THEN "nil" ELSE "git pull", att)
      [] p = "cap_pull0" ->
            IF ok THEN Pos("cap_add", "nil", att)
            ELSE Pos("ret", "git pull before commit", att)
      [] p = "cap_pullR" ->
            IF ~ok THEN Pos("cap_abort", "git pull during push retry", att)
            ELSE IF att + 1 < pushMaxRetries THEN Pos("cap_push", "nil", att + 1)
            ELSE Pos("ret", "git push failed after attempts", att + 1)

\* A CommitAndPush that commits whatever "git add" returned.
AfterAdd_GoesOn(ok, att) == Pos("cap_commit", "nil", att)

AfterAdd(ok, att) == IF ok THEN Pos("cap_commit", "nil", att) ELSE Pos("ret", "git add", att)

\* A CommitAndPush that starts over when the commit fails.
AfterCommit_StartsOver(ok, att) ==
    IF ok THEN Pos("cap_push", "nil", 0) ELSE Pos("cap_pull0", "nil", att)

AfterCommit(ok, att) == IF ok THEN Pos("cap_push", "nil", 0) ELSE Pos("ret", "git commit", att)

\* A loop that does not return on a successful push.
AfterPush_NoReturn(ok, att) == Pos("cap_pullR", "nil", att)

AfterPush(ok, att) == IF ok THEN Pos("ret", "nil", att) ELSE Pos("cap_pullR", "nil", att)

\* A Clone that retries a failed first clone in insecure mode too.
AfterClone_RetryAlways(p, ok, insecure) ==
    IF ok THEN Pos("clone_cfg_email", "nil", 0)
    ELSE IF p = "clone_run1" THEN Pos("clone_refresh", "nil", 0)
    ELSE Pos("ret", "git clone", 0)

\* Where Clone goes when "git clone" exits at position p.
AfterClone(p, ok, insecure) ==
    IF ok THEN Pos("clone_cfg_email", "nil", 0)
    ELSE IF p = "clone_run1" /\ ~insecure THEN Pos("clone_refresh", "nil", 0)
    ELSE Pos("ret", "git clone", 0)

AfterConfig(p, ok) ==
    IF ~ok THEN Pos("ret", IF p = "clone_cfg_email" THEN "git config email" ELSE "git config name", 0)
    ELSE IF p = "clone_cfg_email" THEN Pos("clone_cfg_name", "nil", 0)
    ELSE Pos("ret", "nil", 0)

Move(t, n) ==
    /\ pc' = [pc EXCEPT ![t] = n.pc]
    /\ result' = [result EXCEPT ![t] = n.res]
    /\ attempt' = [attempt EXCEPT ![t] = n.att]

Logged(t, e) == log' = [log EXCEPT ![t] = Append(@, e)]

Exited(t) == running' = running \ {Proc(t)}

\* ---------------------------------------------------- GitRepo: the lock
\* A method that does not wait for the mutex.
Lock_NoWait(t) ==
    /\ pc[t] \in LockPcs
    /\ mu' = t
    /\ Move(t, Pos(CASE pc[t] = "clone_lock" -> "clone_ensure"
                     [] pc[t] = "pull_lock" -> "pull_pull"
                     [] pc[t] = "cap_lock" -> "cap_pull0", "nil", 0))
    /\ log' = [log EXCEPT ![t] = <<>>]
    /\ UNCHANGED <<cfg, inbox, knownHosts, gitVars, running, req, path, resp, calls, clock, rl>>

\* g.mu.Lock() at the head of Clone, Pull and CommitAndPush.
Lock(t) ==
    /\ pc[t] \in LockPcs
    /\ mu = Free
    /\ mu' = t
    /\ Move(t, Pos(CASE pc[t] = "clone_lock" -> "clone_ensure"
                     [] pc[t] = "pull_lock" -> "pull_pull"
                     [] pc[t] = "cap_lock" -> "cap_pull0", "nil", 0))
    /\ log' = [log EXCEPT ![t] = <<>>]
    /\ UNCHANGED <<cfg, inbox, knownHosts, gitVars, running, req, path, resp, calls, clock, rl>>

\* A method that unlocks only on the path that returns nil.
Return_KeepsLockOnError(t) ==
    /\ pc[t] = "ret"
    /\ mu' = IF mu = t /\ result[t] = "nil" THEN Free ELSE mu
    /\ pc' = [pc EXCEPT ![t] = "returned"]
    /\ UNCHANGED <<cfg, inbox, knownHosts, gitVars, running, attempt, req, path, result,
                   resp, log, calls, clock, rl>>

\* The deferred g.mu.Unlock(): the method returns result[t].
Return(t) ==
    /\ pc[t] = "ret"
    /\ mu' = IF mu = t THEN Free ELSE mu
    /\ pc' = [pc EXCEPT ![t] = "returned"]
    /\ UNCHANGED <<cfg, inbox, knownHosts, gitVars, running, attempt, req, path, result,
                   resp, log, calls, clock, rl>>

\* g.run: cmd.Run() launches the subprocess and waits for it.
Start(t) ==
    /\ pc[t] \in ProcPcs
    /\ ~Running(t)
    /\ running' = running \cup {Proc(t)}
    /\ UNCHANGED <<cfg, inbox, knownHosts, gitVars, mu, thrVars, clock, rl>>

\* ------------------------------------------------- git subprocess exits
EndPull(t) ==
    /\ Proc(t) \in running
    /\ CmdAt(pc[t]) = "pull"
    /\ \E ok \in BOOLEAN :
        /\ ok => repo.git /\ ~repo.rebase /\ CleanTree
        /\ \E rb \in (IF ~ok /\ repo.git /\ Unpushed THEN BOOLEAN ELSE {FALSE}) :
              repo' = [repo EXCEPT !.rebase = @ \/ rb]
        /\ Move(t, AfterPull(pc[t], ok, attempt[t]))
        /\ Logged(t, <<"pull", ok>>)
    /\ Exited(t)
    /\ UNCHANGED <<cfg, inbox, knownHosts, wt, index, head, remote, mu, req, path, resp,
                   calls, clock, rl>>

EndAdd(t) ==
    /\ Proc(t) \in running
    /\ CmdAt(pc[t]) = "add"
    /\ \E ok \in BOOLEAN :
        /\ ok => repo.git /\ path[t] \in Paths /\ wt[path[t]] # NoFile
        /\ index' = IF ok THEN [index EXCEPT ![path[t]] = wt[path[t]]] ELSE index
        /\ Move(t, AfterAdd(ok, attempt[t]))
        /\ Logged(t, <<"add", ok>>)
    /\ Exited(t)
    /\ UNCHANGED <<cfg, inbox, knownHosts, repo, wt, head, remote, mu, req, path, resp,
                   calls, clock, rl>>

\* The slug CommitAndPush was called with: ServeHTTP passes the slug of its
\* Comment, a direct caller the one its path lies under.
slugArg(t) == IF t \in Handlers THEN req[t].r.slug ELSE path[t][1]

\* fmt.Sprintf("Add comment on %s", slug)
commitMsg(slug) == <<"Add comment on ">> \o slug

EndCommit(t) ==
    /\ Proc(t) \in running
    /\ CmdAt(pc[t]) = "commit"
    /\ \E ok \in BOOLEAN :
        /\ ok => repo.git /\ index # head
        /\ head' = IF ok THEN index ELSE head
        /\ repo' = IF ok THEN [repo EXCEPT !.authors = @ \cup {Author(repo)},
                                          !.messages = @ \cup {commitMsg(slugArg(t))}]
                   ELSE repo
        /\ Move(t, AfterCommit(ok, attempt[t]))
        /\ Logged(t, <<"commit", ok>>)
    /\ Exited(t)
    /\ UNCHANGED <<cfg, inbox, knownHosts, wt, index, remote, mu, req, path, resp,
                   calls, clock, rl>>

EndPush(t) ==
    /\ Proc(t) \in running
    /\ CmdAt(pc[t]) = "push"
    /\ \E ok \in BOOLEAN :
        /\ ok => repo.git /\ ~repo.rebase
        /\ remote' = IF ok THEN head ELSE remote
        /\ Move(t, AfterPush(ok, attempt[t]))
        /\ Logged(t, <<"push", ok>>)
    /\ Exited(t)
    /\ UNCHANGED <<cfg, inbox, knownHosts, repo, wt, index, head, mu, req, path, resp,
                   calls, clock, rl>>

\* "git rebase --abort": its exit status is ignored.
EndAbort(t) ==
    /\ Proc(t) \in running
    /\ CmdAt(pc[t]) = "rebase-abort"
    /\ \E ok \in BOOLEAN :
        /\ ok => repo.git /\ repo.rebase
        /\ repo' = IF ok THEN [repo EXCEPT !.rebase = FALSE] ELSE repo
        /\ Move(t, Pos("ret", result[t], attempt[t]))
        /\ Logged(t, <<"rebase-abort", ok>>)
    /\ Exited(t)
    /\ UNCHANGED <<cfg, inbox, knownHosts, wt, index, head, remote, mu, req, path, resp,
                   calls, clock, rl>>

EndClone(t) ==
    /\ Proc(t) \in running
    /\ CmdAt(pc[t]) = "clone"
    /\ \E ok \in BOOLEAN :
        /\ ok => repo.dir /\ ~repo.git
        /\ IF ok
           THEN /\ repo' = ClonedRepo
                /\ wt' = remote /\ index' = remote /\ head' = remote
           ELSE UNCHANGED <<repo, wt, index, head>>
        /\ Move(t, AfterClone(pc[t], ok, cfg.SSHInsecure))
        /\ Logged(t, <<"clone", ok>>)
    /\ Exited(t)
    /\ UNCHANGED <<cfg, inbox, knownHosts, remote, mu, req, path, resp, calls, clock, rl>>

EndConfig(t) ==
    /\ Proc(t) \in running
    /\ CmdAt(pc[t]) = "config"
    /\ \E ok \in BOOLEAN :
        /\ ok => repo.git
        /\ repo' = IF ok THEN [repo EXCEPT !.identity =
                        @ \cup {IF pc[t] = "clone_cfg_email" THEN "user.email" ELSE "user.name"}]
                   ELSE repo
        /\ Move(t, AfterConfig(pc[t], ok))
        /\ Logged(t, <<"config", ok>>)
    /\ Exited(t)
    /\ UNCHANGED <<cfg, inbox, knownHosts, wt, index, head, remote, mu, req, path, resp,
                   calls, clock, rl>>


\* ------------------------------------------------------ host trust store
Outcome(ok, kh) == [ok |-> ok, kh |-> kh]

\* An append that truncates known_hosts first.
scanAndAppendHostKeys_Truncates(kh, host) ==
    {Outcome(FALSE, kh)} \cup {Outcome(TRUE, out) : out \in ScanOutputs(host)}

\* scanHostKeys fails, or its output is appended to known_hosts.
scanAndAppendHostKeys(kh, host) ==
    {Outcome(FALSE, kh)} \cup {Outcome(TRUE, kh \o out) : out \in ScanOutputs(host)}

\* A write that keeps the lines known_hosts holds.
scanAndWriteHostKeys_Appends(kh, host) ==
    {Outcome(FALSE, kh)} \cup {Outcome(TRUE, kh \o out) : out \in ScanOutputs(host)}

\* scanHostKeys fails, or its output replaces known_hosts.
scanAndWriteHostKeys(kh, host) ==
    {Outcome(FALSE, kh)} \cup {Outcome(TRUE, out) : out \in ScanOutputs(host)}

ensureHostKeys(kh) ==
    IF cfg.SSHInsecure THEN {Outcome(TRUE, kh)}
    ELSE LET host == extractHost(cfg.GitRepo)
         IN IF host = <<>> THEN {Outcome(FALSE, kh)}
            ELSE IF hostInKnownHosts(kh, host) THEN {Outcome(TRUE, kh)}
            ELSE scanAndAppendHostKeys(kh, host)

refreshHostKeys(kh) ==
    LET host == extractHost(cfg.GitRepo)
    IN IF host = <<>> THEN {Outcome(FALSE, kh)} ELSE scanAndWriteHostKeys(kh, host)

\* ------------------------------------------------- Clone: its own steps
\* Clone, after Lock: ensureHostKeys; an error is logged and ignored.
CloneEnsure(t) ==
    /\ pc[t] = "clone_ensure"
    /\ \E o \in ensureHostKeys(knownHosts) :
        /\ knownHosts' = o.kh
        /\ Logged(t, <<"ensureHostKeys", o.ok>>)
    /\ pc' = [pc EXCEPT ![t] = "clone_stat"]
    /\ UNCHANGED <<cfg, inbox, gitVars, mu, running, attempt, req, path, result, resp,
                   calls, clock, rl>>

\* A Clone that does not look for a working copy.
CloneStat_AlwaysClones(t) ==
    /\ pc[t] = "clone_stat"
    /\ \E mk \in BOOLEAN :
        /\ repo' = IF mk THEN [repo EXCEPT !.dir = TRUE] ELSE repo
        /\ Move(t, IF mk THEN Pos("clone_run1", "nil", 0)
                   ELSE Pos("ret", "creating repo dir", 0))
    /\ UNCHANGED <<cfg, inbox, knownHosts, wt, index, head, remote, mu, running, req, path,
                   resp, log, calls, clock, rl>>

\* os.Stat(repoDir/.git): pull when it exists, else os.MkdirAll(repoDir).
CloneStat(t) ==
    /\ pc[t] = "clone_stat"
    /\ IF repo.git
       THEN /\ Move(t, Pos("clone_pull", "nil", 0))
            /\ UNCHANGED repo
       ELSE \E mk \in BOOLEAN :
            /\ repo' = IF mk THEN [repo EXCEPT !.dir = TRUE] ELSE repo
            /\ Move(t, IF mk THEN Pos("clone_run1", "nil", 0)
                       ELSE Pos("ret", "creating repo dir", 0))
    /\ UNCHANGED <<cfg, inbox, knownHosts, wt, index, head, remote, mu, running, req, path,
                   resp, log, calls, clock, rl>>

\* After a failed first clone in strict mode: refreshHostKeys.
CloneRefresh(t) ==
    /\ pc[t] = "clone_refresh"
    /\ \E o \in refreshHostKeys(knownHosts) :
        /\ knownHosts' = o.kh
        /\ Logged(t, <<"refreshHostKeys", o.ok>>)
        /\ Move(t, IF o.ok THEN Pos("clone_rm", "nil", 0) ELSE Pos("ret", "git clone", 0))
    /\ UNCHANGED <<cfg, inbox, gitVars, mu, running, req, path, resp, calls, clock, rl>>

\* os.RemoveAll(repoDir) then os.MkdirAll(repoDir) before the second clone.
CloneRemake(t) ==
    /\ pc[t] = "clone_rm"
    /\ \E rm \in BOOLEAN, mk \in BOOLEAN :
        /\ IF rm
           THEN /\ repo' = [NoRepo EXCEPT !.dir = mk]
                /\ wt' = EmptyTree /\ index' = EmptyTree /\ head' = EmptyTree
           ELSE UNCHANGED <<repo, wt, index, head>>
        /\ Logged(t, <<"remake", rm /\ mk>>)
        /\ Move(t, IF ~rm THEN Pos("ret", "removing repo dir before retry", 0)
                   ELSE IF ~mk THEN Pos("ret", "creating repo dir before retry", 0)
                   ELSE Pos("clone_run2", "nil", 0))
    /\ UNCHANGED <<cfg, inbox, knownHosts, remote, mu, running, req, path, resp, calls,
                   clock, rl>>

\* ------------------------------------------------------------------ main
\* LoadConfig: STATICOMMENT_GIT_REPO and STATICOMMENT_ALLOWED_ORIGINS are
\* required; log.Fatalf otherwise.
LoadConfig ==
    /\ pc[Main] = "m_load"
    /\ pc' = [pc EXCEPT ![Main] =
                IF cfg.GitRepo # <<>> /\ cfg.AllowedOrigins # {} THEN "clone_lock" ELSE "exit"]
    /\ UNCHANGED <<cfg, inbox, knownHosts, gitVars, mu, running, attempt, req, path, result,
                   resp, log, calls, clock, rl>>

\* A main that starts the server whatever Clone returned.
MainAfterClone_IgnoresError ==
    /\ pc[Main] = "returned"
    /\ pc' = [pc EXCEPT ![Main] = "serving"]
    /\ UNCHANGED <<cfg, inbox, knownHosts, gitVars, mu, running, attempt, req, path, result,
                   resp, log, calls, clock, rl>>

\* main: log.Fatalf when Clone failed, else the server starts.
MainAfterClone ==
    /\ pc[Main] = "returned"
    /\ pc' = [pc EXCEPT ![Main] = IF result[Main] = "nil" THEN "serving" ELSE "exit"]
    /\ UNCHANGED <<cfg, inbox, knownHosts, gitVars, mu, running, attempt, req, path, result,
                   resp, log, calls, clock, rl>>

\* time.Now() advances while the server runs.
Tick ==
    /\ pc[Main] = "serving"
    /\ clock < MaxClock
    /\ clock' = clock + 1
    /\ UNCHANGED <<cfg, inbox, knownHosts, gitVars, mu, running, thrVars, rl>>


\* ----------------------------------------------------------- rate limiter
\* Client addresses.  Time is counted in seconds; windowSeconds is a whole
\* number of them and calls fall on whole seconds.
IPs == 1..NIPs

\* A constructor that launches the cleanup goroutine whatever max is.
NewRateLimiter_AlwaysSweeps(windowSeconds, max) ==
    [window |-> windowSeconds, max |-> max,
     keys |-> {},
     entries |-> [ip \in IPs |-> <<>>],
     cleanup |-> "go",
     next |-> 0,
     hist |-> <<>>]

\* NewRateLimiter(windowSeconds, max): an empty map (keys are the addresses
\* that have a key in it; an address without a key has no time stamps) and, if max > 0, the cleanup goroutine launched but not
\* yet running.  hist lists the Allow calls made so far, with their results.
NewRateLimiter(windowSeconds, max) ==
    [window |-> windowSeconds, max |-> max,
     keys |-> {},
     entries |-> [ip \in IPs |-> <<>>],
     cleanup |-> IF max > 0 THEN "go" ELSE "none",
     next |-> 0,
     hist |-> <<>>]

\* A filter that keeps the time stamps at or after the cutoff.
Valid_Inclusive(timestamps, now, window) ==
    SelectSeq(timestamps, LAMBDA ts : ts >= now - window)

\* The filter of Allow and cleanup: the time stamps with t.After(cutoff),
\* cutoff = now.Add(-rl.window).
Valid(timestamps, now, window) ==
    SelectSeq(timestamps, LAMBDA ts : ts > now - window)

\* A panic of the cleanup goroutine ends the process.
Alive == rl.cleanup # "panicked"

\* An Allow that records the time of a call it rejects.
Allow_RecordsRejected(ip) ==
    /\ Alive
    /\ Len(rl.hist) < MaxAllow
    /\ LET now == clock
           valid == Valid(rl.entries[ip], now, rl.window)
           Call(ok) == [ip |-> ip, at |-> now, ok |-> ok]
       IN IF rl.max <= 0
          THEN rl' = [rl EXCEPT !.hist = Append(@, Call(TRUE))]
          ELSE rl' = [rl EXCEPT !.keys = @ \cup {ip}, !.entries[ip] = Append(valid, now),
                                !.hist = Append(@, Call(Len(valid) < rl.max))]
    /\ UNCHANGED <<cfg, inbox, knownHosts, gitVars, mu, running, thrVars, clock>>

\* An Allow that rejects only when more than max time stamps are valid.
Allow_OffByOne(ip) ==
    /\ Alive
    /\ Len(rl.hist) < MaxAllow
    /\ LET now == clock
           valid == Valid(rl.entries[ip], now, rl.window)
           Call(ok) == [ip |-> ip, at |-> now, ok |-> ok]
       IN IF rl.max <= 0
          THEN rl' = [rl EXCEPT !.hist = Append(@, Call(TRUE))]
          ELSE IF Len(valid) > rl.max
          THEN rl' = [rl EXCEPT !.keys = @ \cup {ip}, !.entries[ip] = valid,
                                !.hist = Append(@, Call(FALSE))]
          ELSE rl' = [rl EXCEPT !.keys = @ \cup {ip}, !.entries[ip] = Append(valid, now),
                                !.hist = Append(@, Call(TRUE))]
    /\ UNCHANGED <<cfg, inbox, knownHosts, gitVars, mu, running, thrVars, clock>>

\* rl.Allow(ip), the body under rl.mu in one step.
Allow(ip) ==
    /\ Alive
    /\ Len(rl.hist) < MaxAllow
    /\ LET now == clock
           valid == Valid(rl.entries[ip], now, rl.window)
           Call(ok) == [ip |-> ip, at |-> now, ok |-> ok]
       IN IF rl.max <= 0
          THEN rl' = [rl EXCEPT !.hist = Append(@, Call(TRUE))]
          ELSE IF Len(valid) >= rl.max
          THEN rl' = [rl EXCEPT !.keys = @ \cup {ip}, !.entries[ip] = valid,
                                !.hist = Append(@, Call(FALSE))]
          ELSE rl' = [rl EXCEPT !.keys = @ \cup {ip}, !.entries[ip] = Append(valid, now),
                                !.hist = Append(@, Call(TRUE))]
    /\ UNCHANGED <<cfg, inbox, knownHosts, gitVars, mu, running, thrVars, clock>>

\* The cleanup goroutine starts: time.NewTicker(rl.window) panics for a
\* window that is not positive, otherwise the first tick is due a window later.
cleanupStart ==
    /\ rl.cleanup = "go"
    /\ rl' = IF rl.window <= 0
             THEN [rl EXCEPT !.cleanup = "panicked"]
             ELSE [rl EXCEPT !.cleanup = "ticking", !.next = clock + rl.window]
    /\ UNCHANGED <<cfg, inbox, knownHosts, gitVars, mu, running, thrVars, clock>>

\* A sweep that keeps the key of an address it left without time stamps.
cleanupTick_KeepsKeys ==
    /\ rl.cleanup = "ticking"
    /\ clock >= rl.next
    /\ rl' = [rl EXCEPT !.entries = [ip \in IPs |-> Valid(rl.entries[ip], clock, rl.window)],
                        !.next = @ + rl.window]
    /\ UNCHANGED <<cfg, inbox, knownHosts, gitVars, mu, running, thrVars, clock>>

\* One round of the cleanup loop, under rl.mu: a tick is due, every address
\* keeps its valid time stamps and an address left with none loses its key.
cleanupTick ==
    /\ rl.cleanup = "ticking"
    /\ clock >= rl.next
    /\ rl' = [rl EXCEPT !.entries = [ip \in IPs |-> Valid(rl.entries[ip], clock, rl.window)],
                        !.keys = {ip \in @ : Valid(rl.entries[ip], clock, rl.window) # <<>>},
                        !.next = @ + rl.window]
    /\ UNCHANGED <<cfg, inbox, knownHosts, gitVars, mu, running, thrVars, clock>>

\* A second passes.
Advance ==
    /\ Alive
    /\ clock < MaxTime
    /\ clock' = clock + 1
    /\ UNCHANGED <<cfg, inbox, knownHosts, gitVars, mu, running, thrVars, rl>>

\* --------------------------------------------------------------- requests
\* A header or form value is a sequence of tokens. An origin is <<scheme, host>>, a
\* URL <<scheme, host, path>>, <<"%zz">> a URL that url.Parse rejects and <<>>
\* the empty string. A body is <<text, len(text)>>; a text and a slug are
\* sequences of characters. formOK tells whether r.ParseForm() can parse the
\* request body (an invalid escape in any field, or more than 64 KiB, and it
\* cannot).
GoodOrigin == <<"https", "site">>
EvilOrigin == <<"https", "evil">>
GoodURL == <<"https", "site", "/p">>
EvilURL == <<"https", "evil", "/p">>
BadURL == <<"%zz">>
NoResp == <<>>

BaseReq == [method |-> "POST", origin |-> GoodOrigin, referer |-> <<>>, name |-> <<"A">>,
            email |-> "", body |-> <<<<"h", "i">>, 2>>, slug |-> <<"p">>, replyTo |-> <<>>,
            url |-> GoodURL, formOK |-> TRUE]
NullReq == [method |-> "", origin |-> <<>>, referer |-> <<>>, name |-> <<>>,
            email |-> "", body |-> <<<<>>, 0>>, slug |-> <<>>, replyTo |-> <<>>,
            url |-> <<>>, formOK |-> TRUE]

Lower == {"a", "b", "c", "d", "e", "f", "g", "h", "i", "j", "k", "l", "m", "n", "o", "p",
          "q", "r", "s", "t", "u", "v", "w", "x", "y", "z"}
Upper == {"A", "B", "C", "D", "E", "F", "G", "H", "I", "J", "K", "L", "M", "N", "O", "P",
          "Q", "R", "S", "T", "U", "V", "W", "X", "Y", "Z"}
Digits == {"0", "1", "2", "3", "4", "5", "6", "7", "8", "9"}

\* A check without the loop over the characters.
isValidSlug_NoCharLoop(slug) ==
    /\ slug # <<>>
    /\ ~\E i \in 1..(Len(slug) - 1) : slug[i] = "." /\ slug[i + 1] = "."
    /\ ~\E i \in 1..Len(slug) : slug[i] \in {"/", "\\"}

\* A check that accepts every slug that is not empty.
isValidSlug_NonEmpty(slug) == slug # <<>>

isValidSlug(slug) ==
    /\ slug # <<>>
    /\ ~\E i \in 1..(Len(slug) - 1) : slug[i] = "." /\ slug[i + 1] = "."
    /\ ~\E i \in 1..Len(slug) : slug[i] \in {"/", "\\"}
    /\ \A i \in 1..Len(slug) : slug[i] \in Lower \cup Upper \cup Digits \cup {"-", "_"}

\* A TrimSpace that returns its argument as it is.
TrimSpace_Identity(s) == s

\* strings.TrimSpace: s without its leading and trailing white space.
TrimSpace(s) ==
    LET black == {i \in 1..Len(s) : s[i] # " "}
    IN IF black = {} THEN <<>>
       ELSE SubSeq(s, CHOOSE i \in black : \A j \in black : i <= j,
                      CHOOSE i \in black : \A j \in black : i >= j)

\* The form values ServeHTTP works with: r.FormValue(...) trimmed (a body
\* keeps its length unless nothing is left of it).
Form(r) ==
    [r EXCEPT !.name = TrimSpace(@),
              !.body = IF TrimSpace(@[1]) = <<>> THEN <<<<>>, 0>> ELSE <<TrimSpace(@[1]), @[2]>>,
              !.slug = TrimSpace(@),
              !.replyTo = TrimSpace(@),
              !.url = TrimSpace(@)]

\* url.Parse(u) returns no error.
parses(u) == Len(u) = 3

\* url.Parse stores the scheme in lower case and leaves the host as it is.
LowerScheme(scheme) == IF scheme = "HTTPS" THEN "https" ELSE scheme

\* u.Scheme + "://" + u.Host of a parsed URL.
SchemeHost(u) == <<LowerScheme(u[1]), u[2]>>

\* u.String() of a parsed URL.
urlString(u) == <<LowerScheme(u[1]), u[2], u[3]>>

\* A check that trusts the Referer although an Origin header is present.
checkOrigin_RefererToo(r) ==
    \/ r.origin # <<>> /\ r.origin \in cfg.AllowedOrigins
    \/ r.referer # <<>> /\ parses(r.referer) /\ SchemeHost(r.referer) \in cfg.AllowedOrigins

checkOrigin(r) ==
    LET origin == IF r.origin # <<>> THEN r.origin
                  ELSE IF r.referer = <<>> \/ ~parses(r.referer) THEN <<>>
                  ELSE SchemeHost(r.referer)
    IN origin # <<>> /\ origin \in cfg.AllowedOrigins

\* A check that accepts every URL that parses.
isAllowedRedirect_AnyURL(u) == parses(u)

isAllowedRedirect(u) == parses(u) /\ SchemeHost(u) \in cfg.AllowedOrigins

\* The response: <<status, Location, comment_error or fragment>>.
errorRedirect(u, msg) ==
    IF u # <<>> /\ parses(u) THEN <<303, urlString(u), msg>> ELSE <<400, <<>>, msg>>

\* A glob that matches every file whose name starts with the slug.
postExists_Prefix(slug) ==
    \E f \in cfg.Posts : Len(f) >= Len(slug) /\ SubSeq(f, 1, Len(slug)) = slug

\* filepath.Glob(<PostsPath>/<slug>.*) has a match: cfg.Posts are the names
\* in the posts directory of the working copy, and "*" matches any
\* sequence of characters, the empty one too.
postExists(slug) ==
    \E f \in cfg.Posts :
        Len(f) > Len(slug) /\ SubSeq(f, 1, Len(slug)) = slug /\ f[Len(slug) + 1] = "."

\* A pipeline that checks the required fields before the redirect URL.
GuardResponse_FieldsFirst(r) ==
    IF r.method # "POST" THEN <<405, <<>>, "Method not allowed">>
    ELSE IF ~checkOrigin(r) THEN <<403, <<>>, "Forbidden: origin not allowed">>
    ELSE IF ~r.formOK THEN <<400, <<>>, "Bad request">>
    ELSE IF r.name = <<>> \/ r.body[1] = <<>> \/ r.slug = <<>> \/ r.url = <<>>
         THEN errorRedirect(r.url, "Missing required fields (name, body, slug, url)")
    ELSE IF r.url # <<>> /\ ~isAllowedRedirect(r.url)
         THEN <<403, <<>>, "Forbidden: redirect URL origin not allowed">>
    ELSE IF r.body[2] > defaultMaxBodyLen THEN errorRedirect(r.url, "Comment body too long")
    ELSE IF ~isValidSlug(r.slug) THEN errorRedirect(r.url, "Invalid slug")
    ELSE IF r.replyTo # <<>> /\ ~isValidSlug(r.replyTo)
         THEN errorRedirect(r.url, "Invalid reply_to")
    ELSE IF cfg.PostsPath # "" /\ ~postExists(r.slug) THEN errorRedirect(r.url, "Post not found")
    ELSE NoResp

\* A pipeline that checks the format of reply_to before that of the slug.
GuardResponse_ReplyToFirst(r) ==
    IF r.method # "POST" THEN <<405, <<>>, "Method not allowed">>
    ELSE IF ~checkOrigin(r) THEN <<403, <<>>, "Forbidden: origin not allowed">>
    ELSE IF ~r.formOK THEN <<400, <<>>, "Bad request">>
    ELSE IF r.url # <<>> /\ ~isAllowedRedirect(r.url)
         THEN <<403, <<>>, "Forbidden: redirect URL origin not allowed">>
    ELSE IF r.name = <<>> \/ r.body[1] = <<>> \/ r.slug = <<>> \/ r.url = <<>>
         THEN errorRedirect(r.url, "Missing required fields (name, body, slug, url)")
    ELSE IF r.body[2] > defaultMaxBodyLen THEN errorRedirect(r.url, "Comment body too long")
    ELSE IF r.replyTo # <<>> /\ ~isValidSlug(r.replyTo)
         THEN errorRedirect(r.url, "Invalid reply_to")
    ELSE IF ~isValidSlug(r.slug) THEN errorRedirect(r.url, "Invalid slug")
    ELSE IF cfg.PostsPath # "" /\ ~postExists(r.slug) THEN errorRedirect(r.url, "Post not found")
    ELSE NoResp

\* ServeHTTP's checks in order: the response of the first one that fails,
\* NoResp when the request passes them all.
GuardResponse(r) ==
    IF r.method # "POST" THEN <<405, <<>>, "Method not allowed">>
    ELSE IF ~checkOrigin(r) THEN <<403, <<>>, "Forbidden: origin not allowed">>
    ELSE IF ~r.formOK THEN <<400, <<>>, "Bad request">>
    ELSE IF r.url # <<>> /\ ~isAllowedRedirect(r.url)
         THEN <<403, <<>>, "Forbidden: redirect URL origin not allowed">>
    ELSE IF r.name = <<>> \/ r.body[1] = <<>> \/ r.slug = <<>> \/ r.url = <<>>
         THEN errorRedirect(r.url, "Missing required fields (name, body, slug, url)")
    ELSE IF r.body[2] > defaultMaxBodyLen THEN errorRedirect(r.url, "Comment body too long")
    ELSE IF ~isValidSlug(r.slug) THEN errorRedirect(r.url, "Invalid slug")
    ELSE IF r.replyTo # <<>> /\ ~isValidSlug(r.replyTo)
         THEN errorRedirect(r.url, "Invalid reply_to")
    ELSE IF cfg.PostsPath # "" /\ ~postExists(r.slug) THEN errorRedirect(r.url, "Post not found")
    ELSE NoResp

\* A word as the (?i) flag of a blocked pattern reads it.
FoldCase(w) ==
    CASE w \in {"Spam", "SPAM"} -> "spam"
      [] w = "HTTP://" -> "http://"
      [] OTHER -> w

\* len(linkPattern.FindAllStringIndex(body, -1)): the matches of https?://
LinkCount(body) == Cardinality({i \in 1..Len(body) : body[i] \in {"http://", "https://"}})

\* A content check whose blocked patterns are case-sensitive.
checkBodyContent_CaseSensitive(body, maxLinks, blockedPatterns) ==
    IF maxLinks > 0 /\ LinkCount(body) > maxLinks THEN <<"Too many links (max %d)", maxLinks>>
    ELSE IF \E re \in blockedPatterns : \E i \in 1..Len(body) : body[i] = re
         THEN <<"Comment contains blocked content">>
    ELSE <<>>

\* checkBodyContent: the error message, <<>> for the empty string.
checkBodyContent(body, maxLinks, blockedPatterns) ==
    IF maxLinks > 0 /\ LinkCount(body) > maxLinks THEN <<"Too many links (max %d)", maxLinks>>
    ELSE IF \E re \in blockedPatterns :
               \E i \in 1..Len(body) : FoldCase(body[i]) = FoldCase(re)
         THEN <<"Comment contains blocked content">>
    ELSE <<>>

\* checkBodyContent is applied to the body of a request and the configured
\* settings; resp holds what it returned.
CallCheckBodyContent(t) ==
    /\ t \in Handlers
    /\ pc[t] = "h_idle"
    /\ \E raw \in inbox[t] :
          resp' = [resp EXCEPT ![t] = <<checkBodyContent(raw.body[1], cfg.MaxLinks,
                                                         cfg.BlockedPatterns)>>]
    /\ pc' = [pc EXCEPT ![t] = "h_done"]
    /\ UNCHANGED <<cfg, inbox, knownHosts, gitVars, mu, running, attempt, req, path, result,
                   log, calls, clock, rl>>

\* The Comment record ServeHTTP builds, as yaml.Marshal writes it.
Comment(r, date) == <<r.name, r.email, r.body[1], date, r.slug, r.replyTo>>

NoReq == [r |-> NullReq, date |-> 0, during |-> {}]

\* The requests net/http is serving in goroutines of their own.
InFlight == {u \in Handlers : pc[u] \notin {"h_idle", "h_done", "off"}}

\* ------------------------------------------------------------ ServeHTTP
\* The t-th request arrives (connections are numbered in arrival order): the
\* checks, then the Comment with Date = time.Now().  "during" remembers the
\* requests that were being served when this one arrived.
ServeHTTP(t) ==
    /\ t \in Handlers
    /\ pc[t] = "h_idle"
    /\ pc[Main] = "serving"
    /\ \A u \in Handlers : u < t => pc[u] # "h_idle"
    /\ \E raw \in inbox[t] : LET r == Form(raw) IN
        IF GuardResponse(r) # NoResp
        THEN /\ resp' = [resp EXCEPT ![t] = GuardResponse(r)]
             /\ pc' = [pc EXCEPT ![t] = "h_done"]
             /\ req' = req
        ELSE /\ req' = [req EXCEPT ![t] = [r |-> r, date |-> clock, during |-> InFlight]]
             /\ pc' = [pc EXCEPT ![t] = "h_write"]
             /\ resp' = resp
    /\ UNCHANGED <<cfg, inbox, knownHosts, gitVars, mu, running, attempt, path, result, log,
                   calls, clock, rl>>

\* The file name writeComment generates: <timestamp>-<random>.yml under the
\* slug's directory.
FileName(slug, ts, rnd) == <<slug, ts, rnd>>

\* strings.Split(s, "/"): the path elements of a string.
RECURSIVE SplitPath(_)
SplitPath(s) ==
    IF ~Contains(s, "/") THEN <<s>>
    ELSE <<BeforeFirst(s, "/")>> \o SplitPath(AfterFirst(s, "/"))

\* filepath.Clean of a relative path, element by element: "" and "." are
\* dropped, ".." removes the element before it and stays when there is none.
RECURSIVE Clean(_, _)
Clean(done, rest) ==
    IF rest = <<>> THEN done
    ELSE LET c == Head(rest)
         IN IF c = <<>> \/ c = <<".">> THEN Clean(done, Tail(rest))
            ELSE IF c = <<".", ".">> /\ done # <<>> /\ done[Len(done)] # <<".", ".">>
                 THEN Clean(SubSeq(done, 1, Len(done) - 1), Tail(rest))
            ELSE Clean(Append(done, c), Tail(rest))

\* filepath.Join(dir, elem), dir being a cleaned path: its elements.
Join(dir, elem) == Clean(<<>>, dir \o SplitPath(elem))

\* cfg.CommentsPath: the default "_data/comments", relative to the working copy.
CommentsPath == <<<<"_data">>, <<"comments">>>>

\* writeComment's relPath of the file FileName names:
\* Join(Join(CommentsPath, slug), "<ts>-<rnd>.yml").
relPath(p) ==
    Join(Join(CommentsPath, p[1]), <<ToString(p[2]), "-", ToString(p[3]), ".yml">>)

\* writeComment up to os.WriteFile: MkdirAll, the time stamp, randomHex.
WriteBegin(t) ==
    /\ pc[t] = "h_write"
    /\ \E ok \in BOOLEAN, rnd \in RandVals :
        IF ok
        THEN /\ path' = [path EXCEPT ![t] = FileName(req[t].r.slug, clock, rnd)]
             /\ pc' = [pc EXCEPT ![t] = "h_writing"]
             /\ resp' = resp
        ELSE /\ resp' = [resp EXCEPT ![t] = errorRedirect(req[t].r.url, "Failed to save comment")]
             /\ pc' = [pc EXCEPT ![t] = "h_done"]
             /\ path' = path
    /\ UNCHANGED <<cfg, inbox, knownHosts, gitVars, mu, running, attempt, req, result, log,
                   calls, clock, rl>>

\* os.WriteFile(fullPath, data, 0644): creates or truncates the file.
WriteFile(tree, p, data) == [tree EXCEPT ![p] = data]

\* os.WriteFile returns; ServeHTTP goes on to CommitAndPush(relPath, slug).
WriteEnd(t) ==
    /\ pc[t] = "h_writing"
    /\ \E ok \in BOOLEAN :
        IF ok
        THEN /\ wt' = WriteFile(wt, path[t], Comment(req[t].r, req[t].date))
             /\ pc' = [pc EXCEPT ![t] = "cap_lock"]
             /\ resp' = resp
        ELSE /\ resp' = [resp EXCEPT ![t] = errorRedirect(req[t].r.url, "Failed to save comment")]
             /\ pc' = [pc EXCEPT ![t] = "h_done"]
             /\ wt' = wt
    /\ UNCHANGED <<cfg, inbox, knownHosts, repo, index, head, remote, mu, running, attempt,
                   req, path, result, log, calls, clock, rl>>

\* A handler that sends the success redirect whatever CommitAndPush returned.
Respond_AlwaysSuccess(t) ==
    /\ t \in Handlers
    /\ pc[t] = "returned"
    /\ resp' = [resp EXCEPT ![t] = <<303, urlString(req[t].r.url), "comment-submitted">>]
    /\ Move(t, Pos("h_done", "nil", 0))
    /\ log' = [log EXCEPT ![t] = <<>>]
    /\ UNCHANGED <<cfg, inbox, knownHosts, gitVars, mu, running, req, path, calls, clock, rl>>

\* CommitAndPush returned: the success redirect or "Failed to publish"; the
\* call's error and locals go out of scope.
Respond(t) ==
    /\ t \in Handlers
    /\ pc[t] = "returned"
    /\ resp' = [resp EXCEPT ![t] =
                  IF result[t] = "nil" THEN <<303, urlString(req[t].r.url), "comment-submitted">>
                  ELSE errorRedirect(req[t].r.url, "Failed to publish comment")]
    /\ Move(t, Pos("h_done", "nil", 0))
    /\ log' = [log EXCEPT ![t] = <<>>]
    /\ UNCHANGED <<cfg, inbox, knownHosts, gitVars, mu, running, req, path, calls, clock, rl>>

\* ------------------------------------------- direct calls of the methods
CallClone(t) ==
    /\ t \in Callers /\ pc[t] = "c_idle" /\ calls[t] < MaxCalls
    /\ pc' = [pc EXCEPT ![t] = "clone_lock"]
    /\ calls' = [calls EXCEPT ![t] = @ + 1]
    /\ UNCHANGED <<cfg, inbox, knownHosts, gitVars, mu, running, attempt, req, path, result,
                   resp, log, clock, rl>>

CallPull(t) ==
    /\ t \in Callers /\ pc[t] = "c_idle" /\ calls[t] < MaxCalls
    /\ pc' = [pc EXCEPT ![t] = "pull_lock"]
    /\ calls' = [calls EXCEPT ![t] = @ + 1]
    /\ UNCHANGED <<cfg, inbox, knownHosts, gitVars, mu, running, attempt, req, path, result,
                   resp, log, clock, rl>>

CallCommitAndPush(t) ==
    /\ t \in Callers /\ pc[t] = "c_idle" /\ calls[t] < MaxCalls
    /\ \E p \in Paths : path' = [path EXCEPT ![t] = p]
    /\ pc' = [pc EXCEPT ![t] = "cap_lock"]
    /\ calls' = [calls EXCEPT ![t] = @ + 1]
    /\ UNCHANGED <<cfg, inbox, knownHosts, gitVars, mu, running, attempt, req, result,
                   resp, log, clock, rl>>

\* The call is over: its error and locals go out of scope.
CallerReturn(t) ==
    /\ t \in Callers /\ pc[t] = "returned"
    /\ Move(t, Pos("c_idle", "nil", 0))
    /\ log' = [log EXCEPT ![t] = <<>>]
    /\ path' = [path EXCEPT ![t] = NoPath]
    /\ UNCHANGED <<cfg, inbox, knownHosts, gitVars, mu, running, req, resp, calls, clock, rl>>

\* ----------------------------------------------------- specifications
NoRL == NewRateLimiter(0, 0)

BaseCfg == [GitRepo |-> RepoSSH, SSHInsecure |-> FALSE, AllowedOrigins |-> {GoodOrigin},
            PostsPath |-> "", Posts |-> {}, MaxLinks |-> 3, BlockedPatterns |-> {}]

ExistingRepo == [ClonedRepo EXCEPT !.identity = Identity]

\* The working copies an earlier run of the process can have left in
\* /app/repo: none, or a clone whose run ended before, between or after the
\* two "git config" calls of Clone.
LeftRepos == {NoRepo} \cup {[ClonedRepo EXCEPT !.identity = i] : i \in {{}, {"user.email"}, Identity}}

\* The request of the t-th client: its own comment text on the one post.
ReqOf(t) == [BaseReq EXCEPT !.body = <<<<"c", ToString(t)>>, 2>>]

InitThreads(m, h, c) ==
    /\ pc = [t \in Threads |-> IF t = Main THEN m ELSE IF t \in Handlers THEN h[t] ELSE c]
    /\ attempt = [t \in Threads |-> 0]
    /\ req = [t \in Threads |-> NoReq]
    /\ path = [t \in Threads |-> NoPath]
    /\ result = [t \in Threads |-> "nil"]
    /\ resp = [t \in Threads |-> NoResp]
    /\ log = [t \in Threads |-> <<>>]
    /\ calls = [t \in Threads |-> 0]
    /\ mu = Free
    /\ running = {}
    /\ clock = 0

InitTrees ==
    /\ wt = EmptyTree /\ index = EmptyTree /\ head = EmptyTree /\ remote = EmptyTree

\* The process starts, under any configuration and with or without a
\* working copy left by an earlier run; one request arrives once it serves.
Init ==
    /\ cfg \in {[BaseCfg EXCEPT !.GitRepo = u, !.SSHInsecure = i] :
                    u \in RepoURLs, i \in BOOLEAN}
    /\ inbox = [t \in Handlers |-> {ReqOf(t), [BaseReq EXCEPT !.method = "GET"]}]
    /\ knownHosts \in InitKnownHosts
    /\ repo \in LeftRepos
    /\ InitTrees
    /\ InitThreads("m_load", [t \in Handlers |-> IF t = 1 THEN "h_idle" ELSE "off"], "off")
    /\ rl = NoRL

\* The server after a successful start: NHandlers requests arrive within
\* one second, each with a comment of its own on the same post.
InitServe ==
    /\ cfg = BaseCfg
    /\ inbox = [t \in Handlers |-> {ReqOf(t)}]
    /\ knownHosts = <<<<<<"h1">>, "new">>>>
    /\ repo = ExistingRepo
    /\ InitTrees
    /\ InitThreads("serving", [t \in Handlers |-> "h_idle"], "off")
    /\ rl = NoRL

\* The GitRepo object with NCallers goroutines calling its methods.
InitAPI ==
    /\ cfg = BaseCfg
    /\ inbox = [t \in Handlers |-> {}]
    /\ knownHosts = <<>>
    /\ \/ repo = NoRepo /\ InitTrees
       \/ /\ repo = ExistingRepo
          /\ wt \in {EmptyTree, [p \in Paths |-> Comment(ReqOf(1), 0)]}
          /\ index = EmptyTree /\ head = EmptyTree /\ remote = EmptyTree
    /\ InitThreads("off", [t \in Handlers |-> "off"], "c_idle")
    /\ rl = NoRL

CloneSteps(t) ==
    \/ EndClone(t) \/ EndConfig(t)
    \/ CloneEnsure(t) \/ CloneStat(t) \/ CloneRefresh(t) \/ CloneRemake(t)

CommitSteps(t) ==
    \/ Lock(t) \/ Return(t) \/ Start(t)
    \/ EndPull(t) \/ EndAdd(t) \/ EndCommit(t) \/ EndPush(t) \/ EndAbort(t)

HandlerSteps(t) == ServeHTTP(t) \/ WriteBegin(t) \/ WriteEnd(t) \/ Respond(t)

CallerSteps(t) == CallClone(t) \/ CallPull(t) \/ CallCommitAndPush(t) \/ CallerReturn(t)

Next ==
    \/ LoadConfig \/ MainAfterClone \/ Tick
    \/ \E t \in Threads : CloneSteps(t) \/ CommitSteps(t) \/ HandlerSteps(t)

NextServe == \E t \in Threads : CommitSteps(t) \/ HandlerSteps(t)

NextAPI == \E t \in Threads : CloneSteps(t) \/ CommitSteps(t) \/ CallerSteps(t)

Spec == Init /\ [][Next]_vars

SpecServe == InitServe /\ [][NextServe]_vars

SpecAPI == InitAPI /\ [][NextAPI]_vars

\* Header and form values a client may send.
UpperURL == <<"HTTPS", "site", "/p">>
LongBody == <<<<"x">>, defaultMaxBodyLen + 1>>
AllReqs ==
    [method : {"POST", "GET"},
     origin : {<<>>, GoodOrigin, EvilOrigin, <<"HTTPS", "site">>},
     referer : {<<>>, GoodURL, EvilURL, BadURL, UpperURL},
     url : {<<>>, <<" ">>, GoodURL, EvilURL, BadURL, UpperURL},
     name : {<<>>, <<" ">>, <<"A">>},
     email : {""},
     body : {<<<<>>, 0>>, BaseReq.body, LongBody},
     slug : {<<>>, <<" ", "p", " ">>, <<".", ".", "/", "x">>},
     replyTo : {<<>>, <<"a", "/", "b">>},
     formOK : BOOLEAN]

\* What the posts directory may hold: nothing, the post p.md, or only files
\* whose names are or start with the slug p without being p.<something>.
PostsDirs == {{}, {<<"p", ".", "m", "d">>}, {<<"p">>, <<"p", "q", ".", "m", "d">>}}

\* The server after a successful start, with or without post validation:
\* one request, of any header and form values, arrives.
InitHTTP ==
    /\ cfg \in {BaseCfg} \cup {[BaseCfg EXCEPT !.PostsPath = "_posts", !.Posts = d] : d \in PostsDirs}
    /\ inbox \in {[t \in Handlers |-> IF t = 1 THEN {r} ELSE {}] : r \in AllReqs}
    /\ knownHosts = <<<<<<"h1">>, "new">>>>
    /\ repo = ExistingRepo
    /\ InitTrees
    /\ InitThreads("serving", [t \in Handlers |-> IF t = 1 THEN "h_idle" ELSE "off"], "off")
    /\ rl = NoRL

SpecHTTP == InitHTTP /\ [][NextServe]_vars

\* The comment bodies a client may send, as words: every text of at most
\* MaxBodyWords of these.
BodyWords == {"http://", "https://", "HTTP://", "x", "Spam"}
BodyInputs == UNION {[1..n -> BodyWords] : n \in 0..MaxBodyWords}

\* The spam settings LoadConfig accepts: any maximum of links from 0, with
\* or without a blocked pattern.
InitBody ==
    /\ cfg \in {[BaseCfg EXCEPT !.MaxLinks = m, !.BlockedPatterns = ps] :
                    m \in 0..MaxMaxLinks, ps \in {{}, {"SPAM"}}}
    /\ inbox \in {[t \in Handlers |-> IF t = 1 THEN {[BaseReq EXCEPT !.body = <<b, Len(b)>>]}
                                       ELSE {}] : b \in BodyInputs}
    /\ knownHosts = <<<<<<"h1">>, "new">>>>
    /\ repo = ExistingRepo
    /\ InitTrees
    /\ InitThreads("serving", [t \in Handlers |-> IF t = 1 THEN "h_idle" ELSE "off"], "off")
    /\ rl = NoRL

NextBody == \E t \in Handlers : CallCheckBodyContent(t)

SpecBody == InitBody /\ [][NextBody]_vars

\* The slugs a client may send: every string of at most MaxSlugLen of these
\* characters.
SlugAlphabet == {"a", "Z", "7", "-", "_", ".", "/", "\\", " ", "~"}
SlugInputs == UNION {[1..n -> SlugAlphabet] : n \in 0..MaxSlugLen}

\* The server after a successful start, without post validation: a request
\* arrives that is complete and allowed, with any slug.
InitSlug ==
    /\ cfg = BaseCfg
    /\ inbox \in {[t \in Handlers |-> IF t = 1 THEN {[BaseReq EXCEPT !.slug = s]} ELSE {}] :
                     s \in SlugInputs}
    /\ knownHosts = <<<<<<"h1">>, "new">>>>
    /\ repo = ExistingRepo
    /\ InitTrees
    /\ InitThreads("serving", [t \in Handlers |-> IF t = 1 THEN "h_idle" ELSE "off"], "off")
    /\ rl = NoRL

\* ServeHTTP up to the Comment it builds.
NextSlug == \E t \in Handlers : ServeHTTP(t)

SpecSlug == InitSlug /\ [][NextSlug]_vars

\* A step of t between the Lock and the Unlock of a method.
InsideStep(t) ==
    \/ CloneSteps(t) \/ Return(t) \/ Start(t)
    \/ EndPull(t) \/ EndAdd(t) \/ EndCommit(t) \/ EndPush(t) \/ EndAbort(t)

\* The callers of the GitRepo methods when every subprocess exits, every
\* goroutine inside a method is scheduled, and a goroutine that waits for the
\* mutex gets it (sync.Mutex hands the lock to a starving waiter).
SpecAPIFair ==
    SpecAPI /\ \A t \in Callers : WF_vars(InsideStep(t)) /\ SF_vars(Lock(t))

\* A rate limiter under any configuration LoadConfig accepts, with callers
\* of Allow.
InitRL ==
    /\ cfg = BaseCfg
    /\ inbox = [t \in Handlers |-> {}]
    /\ knownHosts = <<>>
    /\ repo = NoRepo
    /\ InitTrees
    /\ InitThreads("off", [t \in Handlers |-> "off"], "off")
    /\ rl \in {NewRateLimiter(w, m) : w \in 0..MaxWindow, m \in 0..MaxMax}

NextRL == cleanupStart \/ cleanupTick \/ Advance \/ \E ip \in IPs : Allow(ip)

SpecRL == InitRL /\ [][NextRL]_vars


\* ================================================================ claims
Count(L, e) == Cardinality({i \in 1..Len(L) : L[i] = e})
CountCmd(L, cmd) == Cardinality({i \in 1..Len(L) : L[i][1] = cmd})
Done(t) == pc[t] \in {"ret", "returned"}

\* C1: under any interleaving of Clone, Pull and CommitAndPush calls, a
\* goroutine that is between the Lock and the Unlock of a method holds the
\* mutex, every git subprocess in flight belongs to the holder, and at most
\* one git subprocess is in flight.
C1_OneMethodAtATime ==
    /\ \A t \in Threads : InMethod(t) => mu = t
    /\ \A r \in running : mu = r.t
    /\ Cardinality(running) <= 1

\* A push of one CommitAndPush call is in flight while a Clone call of
\* another goroutine waits for the mutex.
C1_Witness ==
    \E t, u \in Callers :
        /\ [t |-> t, cmd |-> "push"] \in running
        /\ pc[u] = "clone_lock"

\* A handler changes the working copy: its os.WriteFile, or one of its pull,
\* add, commit and push subprocesses, is in flight.
Mutating(t) ==
    \/ pc[t] = "h_writing"
    \/ \E r \in running : r.t = t /\ r.cmd \in {"pull", "add", "commit", "push"}

\* C2 as stated: no two submissions change the working copy at the same time,
\* the comment-file write included.
C2_AllMutationsSerialized ==
    \A t, u \in Handlers : t # u => ~(Mutating(t) /\ Mutating(u))

\* C2, amended: the pull, add, commit and push subprocesses of two submissions
\* never overlap; whenever two submissions change the working copy at the
\* same time, at least one of them is in its comment-file write.
C2_GitMutationsSerialized ==
    \A t, u \in Handlers :
        t # u /\ Mutating(t) /\ Mutating(u) => pc[t] = "h_writing" \/ pc[u] = "h_writing"

\* One submission writes its comment file while a push of another is in flight.
C2_Witness ==
    \E t, u \in Handlers :
        /\ pc[t] = "h_writing"
        /\ [t |-> u, cmd |-> "push"] \in running

\* The call of t made its pull, add and commit, every push of it failed and
\* every pull after a failed push succeeded.
C3_Case(t) ==
    LET L == log[t]
    IN /\ Len(L) >= 3
       /\ L[1] = <<"pull", TRUE>> /\ L[2] = <<"add", TRUE>> /\ L[3] = <<"commit", TRUE>>
       /\ \A i \in 4..Len(L) : L[i] \in {<<"push", FALSE>>, <<"pull", TRUE>>}

\* C3: no call makes a 4th push; a call whose pull, add and commit succeeded,
\* whose pushes all failed and whose later pulls all succeeded has made
\* exactly 3 pushes when it returns, and returns an error.
C3_ThreePushesThenError ==
    \A t \in Threads :
        /\ CountCmd(log[t], "push") <= 3
        /\ Done(t) /\ C3_Case(t) => CountCmd(log[t], "push") = 3 /\ result[t] # "nil"

C3_Witness ==
    \E t \in Handlers :
        /\ pc[t] = "returned" /\ C3_Case(t)
        /\ Count(log[t], <<"push", FALSE>>) = 3
        /\ result[t] = "git push failed after attempts"

\* C4: a push that succeeds is the last subprocess of its call, is one of
\* the first 3 pushes, and the call returns nil at once.
C4_SuccessfulPushReturns ==
    \A t \in Threads : \A i \in 1..Len(log[t]) :
        log[t][i] = <<"push", TRUE>> =>
            /\ i = Len(log[t])
            /\ Done(t) /\ result[t] = "nil"
            /\ CountCmd(log[t], "push") <= 3

\* A call returned nil on its second push.
C4_Witness ==
    \E t \in Handlers :
        /\ pc[t] = "returned" /\ result[t] = "nil"
        /\ Count(log[t], <<"push", FALSE>>) = 1
        /\ Count(log[t], <<"push", TRUE>>) = 1

\* C5: when a pull that follows a failed push fails, nothing but one
\* "git rebase --abort" follows it in the call, which then returns an error;
\* an abort that exits 0 leaves no rebase in progress.
C5_FailedRebaseEndsCall ==
    \A t \in Threads : \A i \in 2..Len(log[t]) :
        log[t][i] = <<"pull", FALSE>> /\ log[t][i - 1] = <<"push", FALSE>> =>
            /\ Len(log[t]) <= i + 1
            /\ pc[t] \in {"cap_abort", "ret", "returned"}
            /\ Done(t) => /\ Len(log[t]) = i + 1
                          /\ log[t][i + 1][1] = "rebase-abort"
                          /\ result[t] # "nil"
                          /\ pc[t] = "ret" /\ log[t][i + 1][2] => ~repo.rebase

\* A call whose first push failed returned after aborting the failed rebase.
C5_Witness ==
    \E t \in Handlers :
        /\ pc[t] = "returned"
        /\ Len(log[t]) = 6
        /\ log[t][4] = <<"push", FALSE>> /\ log[t][5] = <<"pull", FALSE>>
        /\ log[t][6] = <<"rebase-abort", TRUE>>
        /\ result[t] = "git pull during push retry"


\* The submission of t got "Failed to publish comment": its CommitAndPush
\* returned an error.
PublishFailed(t) ==
    /\ t \in Handlers
    /\ \/ pc[t] = "returned" /\ result[t] # "nil"
       \/ pc[t] = "h_done" /\ resp[t] # NoResp /\ resp[t][3] = "Failed to publish comment"

\* The submission of t got the success redirect.
Succeeded(t) ==
    /\ t \in Handlers /\ pc[t] = "h_done"
    /\ resp[t] # NoResp /\ resp[t][1] = 303 /\ resp[t][3] = "comment-submitted"

\* A push of u exits 0: the CommitAndPush call of u succeeds.
PushSucceeds(u) == pc[u] = "cap_push" /\ pc'[u] = "ret" /\ result'[u] = "nil"

\* C6 as stated: the comment file of a submission whose CommitAndPush failed
\* stays in the working copy, and every later CommitAndPush call that succeeds
\* leaves a file of that name on the remote branch.
C6_FailedPublishIsOnlyDelayed ==
    [][\A t, u \in Handlers :
          PublishFailed(t) /\ PushSucceeds(u) =>
              wt'[path[t]] # NoFile /\ remote'[path[t]] # NoFile]_vars

\* The requests of t and u were served at the same time.
Concurrent(t, u) == t \in req[u].during \/ u \in req[t].during

\* C7 as stated: two submissions to the same slug that both got the success
\* redirect wrote two distinct file names, and the remote branch holds both
\* files, each with the Comment of its submission.
C7_BothRecordsPublished ==
    \A t, u \in Handlers :
        t # u /\ Concurrent(t, u) /\ Succeeded(t) /\ Succeeded(u)
              /\ req[t].r.slug = req[u].r.slug =>
            /\ path[t] # path[u]
            /\ remote[path[t]] = Comment(req[t].r, req[t].date)
            /\ remote[path[u]] = Comment(req[u].r, req[u].date)

\* C8 as stated: a writeComment that finds its file name in the slug
\* directory returns an error (ServeHTTP answers and does not go on to
\* CommitAndPush) and leaves the file as it was.
C8_NeverOverwrites ==
    [][\A t \in Handlers :
          pc[t] = "h_writing" /\ pc'[t] # "h_writing" /\ wt[path[t]] # NoFile =>
              wt' = wt /\ pc'[t] = "h_done"]_vars

\* C9 as stated: in strict mode the host of the repo URL is in known_hosts
\* whenever a clone, pull or push over SSH is in flight.
C9_TrustedBeforeSSH ==
    \A r \in running :
        r.cmd \in {"clone", "pull", "push"} /\ IsSSHRemote(cfg.GitRepo) /\ ~cfg.SSHInsecure =>
            hostInKnownHosts(knownHosts, extractHost(cfg.GitRepo))

\* The Allow calls made before call j for the same address that returned true.
Accepted(j) == {i \in 1..(j - 1) : rl.hist[i].ip = rl.hist[j].ip /\ rl.hist[i].ok}

\* The first of the last rl.max accepted calls before call j.
FirstOfLast(j) == CHOOSE i \in Accepted(j) : Cardinality({k \in Accepted(j) : k >= i}) = rl.max

\* C10: with max = N > 0 and window = W, an Allow call that follows N accepted
\* calls for its address returns false if it is made less than W after the
\* first of them, and true if W has elapsed since the first of them (the N
\* accepted calls being the latest N before the call).
C10_WindowLimit ==
    \A j \in 1..Len(rl.hist) :
        rl.max > 0 /\ Cardinality(Accepted(j)) >= rl.max =>
            LET elapsed == rl.hist[j].at - rl.hist[FirstOfLast(j)].at
            IN /\ elapsed < rl.window => ~rl.hist[j].ok
               /\ elapsed >= rl.window => rl.hist[j].ok

\* With N = 2 and W = 2, the third call for an address was rejected inside
\* the window and a later call, exactly W after the first, was accepted.
C10_Witness ==
    /\ rl.max = 2 /\ rl.window = 2
    /\ \E j, k \in 1..Len(rl.hist) :
        /\ k < j /\ rl.hist[k].ip = rl.hist[j].ip
        /\ Cardinality(Accepted(k)) = 2 /\ ~rl.hist[k].ok
        /\ Accepted(j) = Accepted(k)
        /\ rl.hist[j].at - rl.hist[FirstOfLast(j)].at = rl.window
        /\ rl.hist[j].ok

\* The Allow calls for ip that returned true at an instant of [a, b).
AcceptedIn(ip, a, b) ==
    {j \in 1..Len(rl.hist) :
        rl.hist[j].ip = ip /\ rl.hist[j].ok /\ a <= rl.hist[j].at /\ rl.hist[j].at < b}

\* C11: with max > 0, under any interleaving of Allow calls and sweeps, no
\* address has more than max time stamps in the map, and in no interval
\* [a, a + window) did more than max Allow calls for one address return true.
C11_LedgerBounded ==
    rl.max > 0 =>
        \A ip \in IPs :
            /\ Len(rl.entries[ip]) <= rl.max
            /\ \A a \in 0..MaxTime :
                   Cardinality(AcceptedIn(ip, a, a + rl.window)) <= rl.max

\* With max = 2 and window = 2: one address holds 2 time stamps and has had
\* a call rejected, while a sweep has deleted the key of another address
\* whose call had been accepted.
C11_Witness ==
    /\ rl.max = 2 /\ rl.window = 2
    /\ \E ip, other \in IPs :
        /\ Len(rl.entries[ip]) = 2
        /\ \E j \in 1..Len(rl.hist) : rl.hist[j].ip = ip /\ ~rl.hist[j].ok
        /\ rl.entries[other] = <<>>
        /\ AcceptedIn(other, 0, MaxTime + 1) # {}

\* C12: with max = 0 every Allow call has returned true, the map is as
\* NewRateLimiter made it (no key was ever added), and no cleanup goroutine
\* exists.
C12_DisabledWhenZero ==
    rl.max = 0 =>
        /\ \A j \in 1..Len(rl.hist) : rl.hist[j].ok
        /\ rl.entries = [ip \in IPs |-> <<>>]
        /\ rl.cleanup = "none"

\* With max = 0, three calls for one address at the same instant, and a call
\* for another address, have all been made.
C12_Witness ==
    /\ rl.max = 0
    /\ \E ip, other \in IPs :
        /\ ip # other
        /\ Cardinality(AcceptedIn(ip, clock, clock + 1)) >= 3
        /\ AcceptedIn(other, 0, MaxTime + 1) # {}

\* The "git clone" subprocesses the Clone call of t has launched.
CloneAttempts(t) ==
    CountCmd(log[t], "clone") + (IF [t |-> t, cmd |-> "clone"] \in running THEN 1 ELSE 0)

\* The call of t has returned (and main may have exited on its error).
Ended(t) == Done(t) \/ pc[t] = "exit"

\* The call of t is at its second clone, launched or about to be.
AtSecondClone(t) == pc[t] = "clone_run2"

\* C13: a Clone call launches at most two clones.  It is at a second one only
\* in strict mode, after the first clone failed, refreshHostKeys succeeded
\* and the directory was removed and made again (and is empty until the clone
\* exits); in insecure mode a failed clone ends the call; a failed refresh
\* ends the call with the clone's error and one attempt made.
C13_OneRetryOfClone ==
    \A t \in Threads :
        LET L == log[t]  n == Len(log[t])
        IN /\ CloneAttempts(t) <= 2
           /\ CloneAttempts(t) = 2 \/ AtSecondClone(t) =>
                  /\ ~cfg.SSHInsecure
                  /\ \E i \in 1..(n - 2) :
                        /\ L[i] = <<"clone", FALSE>>
                        /\ L[i + 1] = <<"refreshHostKeys", TRUE>>
                        /\ L[i + 2] = <<"remake", TRUE>>
                        /\ \A k \in 1..(i - 1) : L[k][1] # "clone"
           /\ AtSecondClone(t) => repo.dir /\ ~repo.git /\ wt = EmptyTree
           /\ cfg.SSHInsecure =>
                  /\ CloneAttempts(t) <= 1
                  /\ Contains(L, <<"clone", FALSE>>) =>
                        Ended(t) /\ result[t] = "git clone" /\ L[n] = <<"clone", FALSE>>
           /\ Contains(L, <<"refreshHostKeys", FALSE>>) =>
                  /\ CloneAttempts(t) = 1
                  /\ Ended(t) /\ result[t] = "git clone"
                  /\ L[n] = <<"refreshHostKeys", FALSE>>

\* Clone returned "git clone" after a second clone that failed as well.
C13_Witness ==
    /\ pc[Main] = "returned" /\ result[Main] = "git clone"
    /\ Count(log[Main], <<"clone", FALSE>>) = 2
    /\ Contains(log[Main], <<"remake", TRUE>>)

\* The server has begun to handle the request of t.
Handled(t) == pc[t] \notin {"h_idle", "off"} \/ resp[t] # NoResp

\* C14: a request is handled only while main serves, which it does only
\* after LoadConfig accepted the configuration and Clone returned nil (its
\* last subprocess exited 0); before that, and after main exited on an
\* error, no request was handled and no handler touched the working copy.
C14_NoServingBeforeClone ==
    /\ (\E t \in Handlers : Handled(t)) =>
           /\ pc[Main] = "serving" /\ result[Main] = "nil"
           /\ cfg.GitRepo # <<>> /\ cfg.AllowedOrigins # {}
           /\ log[Main] # <<>> /\ log[Main][Len(log[Main])][2]
    /\ pc[Main] # "serving" =>
           \A t \in Handlers : path[t] = NoPath /\ ~Running(t) /\ mu # t

\* A submission is in its "git add" after a Clone that cloned at the second
\* attempt.
C14_Witness ==
    /\ [t |-> 1, cmd |-> "add"] \in running
    /\ Contains(log[Main], <<"clone", FALSE>>)
    /\ Contains(log[Main], <<"clone", TRUE>>)

\* C15: a CommitAndPush that returned, with an error or without, does not
\* hold the mutex and has no subprocess left; the mutex is held only by a
\* goroutine inside a method; and the server goes on serving.
C15_FailureReleasesLock ==
    /\ \A t \in Handlers :
           pc[t] \in {"returned", "h_done"} => mu # t /\ ~Running(t)
    /\ mu # Free => InMethod(mu)
    /\ (\E t \in Handlers : PublishFailed(t)) => pc[Main] = "serving"

\* The call of one submission returned an error after 3 failed pushes, and
\* the call of another, having taken the mutex after it, made its pull, add
\* and commit and pushed.
C15_Witness ==
    \E t, u \in Handlers :
        /\ pc[t] = "returned" /\ result[t] = "git push failed after attempts"
        /\ Count(log[t], <<"push", FALSE>>) = 3
        /\ pc[u] = "ret" /\ result[u] = "nil"
        /\ log[u] = <<<<"pull", TRUE>>, <<"add", TRUE>>, <<"commit", TRUE>>, <<"push", TRUE>>>>

\* The direct caller t is in a CommitAndPush call, or just out of it.
InCommitAndPush(t) ==
    path[t] # NoPath /\ pc[t] \in CapPcs \cup {"cap_lock", "ret", "returned"}

\* The subprocesses of one kind that a CommitAndPush call may run.
MaxRuns(cmd) ==
    CASE cmd = "pull" -> 1 + pushMaxRetries
      [] cmd = "push" -> pushMaxRetries
      [] cmd \in {"add", "commit", "rebase-abort"} -> 1
      [] OTHER -> 0

\* C16: when subprocesses exit and the mutex is fair, every CommitAndPush
\* call returns, whatever the other callers do; and a call never runs more
\* than 4 pulls, 1 add, 1 commit, 3 pushes and 1 rebase --abort.
C16_CommitAndPushReturns ==
    /\ \A t \in Callers : pc[t] \in CapPcs \cup {"cap_lock"} ~> pc[t] = "returned"
    /\ [](\A t \in Callers : InCommitAndPush(t) =>
              \A cmd \in {"pull", "add", "commit", "push", "rebase-abort", "clone", "config"} :
                  CountCmd(log[t], cmd) <= MaxRuns(cmd))

\* A call returned after 4 pulls and 3 pushes while the other caller waits
\* for the mutex.
C16_Witness ==
    \E t, u \in Callers :
        /\ InCommitAndPush(t) /\ pc[t] = "ret"
        /\ CountCmd(log[t], "pull") = 4 /\ CountCmd(log[t], "push") = 3
        /\ pc[u] = "cap_lock"

\* The submission of t is answered in this step.
Answered(t) == pc[t] # "h_done" /\ pc'[t] = "h_done"

\* The answer is the 303 to the redirect URL with fragment comment-submitted.
SuccessResponse(t, r) == r = <<303, urlString(req[t].r.url), "comment-submitted">>

\* C17: a submission is answered with the success redirect only when its
\* CommitAndPush returned nil, its last subprocess being a push that exited 0
\* after its commit, with a file of its name on the remote branch; a
\* submission whose writeComment or CommitAndPush failed is answered with a
\* 303 to its redirect URL carrying comment_error.
C17_SuccessOnlyAfterPush ==
    [][\A t \in Handlers : Answered(t) =>
          /\ SuccessResponse(t, resp'[t]) =>
                /\ pc[t] = "returned" /\ result[t] = "nil"
                /\ Len(log[t]) >= 4
                /\ log[t][Len(log[t])] = <<"push", TRUE>>
                /\ log[t][3] = <<"commit", TRUE>>
                /\ remote[path[t]] # NoFile
          /\ pc[t] \in {"h_write", "h_writing"} =>
                resp'[t] = <<303, urlString(req[t].r.url), "Failed to save comment">>
          /\ pc[t] = "returned" /\ result[t] # "nil" =>
                resp'[t] = <<303, urlString(req[t].r.url), "Failed to publish comment">>]_vars

\* One submission got the success redirect, one "Failed to publish comment"
\* and one "Failed to save comment".
C17_Witness ==
    \E t, u, v \in Handlers :
        /\ Succeeded(t)
        /\ pc[u] = "h_done" /\ resp[u] = <<303, urlString(req[u].r.url), "Failed to publish comment">>
        /\ pc[v] = "h_done" /\ resp[v] = <<303, urlString(req[v].r.url), "Failed to save comment">>

\* The request handler t was sent, as the client wrote it.
RawReq(t) == CHOOSE r \in inbox[t] : TRUE

\* Its headers and its form values as ServeHTTP reads them.
TheReq(t) == Form(RawReq(t))

\* Handler t has written its response.
Responded(t) == inbox[t] # {} /\ resp[t] # NoResp

\* C18: whatever the request and the outcome, the Location of a 303 is the
\* request's redirect URL, which is not empty, and its scheme and host are an
\* entry of the allow-list.
C18_RedirectOnlyToAllowed ==
    \A t \in Handlers :
        Responded(t) /\ resp[t][1] = 303 =>
            /\ TheReq(t).url # <<>> /\ parses(TheReq(t).url)
            /\ resp[t][2] = urlString(TheReq(t).url)
            /\ <<resp[t][2][1], resp[t][2][2]>> \in cfg.AllowedOrigins

\* A request whose redirect URL is written HTTPS://site/p and whose slug is
\* a path traversal was answered with a 303 to https://site/p.
C18_Witness ==
    /\ Responded(1) /\ TheReq(1).url = UpperURL
    /\ resp[1] = <<303, GoodURL, "Invalid slug">>

\* The scheme and host of the redirect URL of r are not in the allow-list.
ForeignRedirect(r) ==
    r.url # <<>> /\ parses(r.url) /\ SchemeHost(r.url) \notin cfg.AllowedOrigins

\* The request of t was admitted past the origin check.
PastOriginCheck(t) ==
    /\ inbox[t] # {} /\ pc[t] # "h_idle"
    /\ resp[t] \notin {<<405, <<>>, "Method not allowed">>,
                       <<403, <<>>, "Forbidden: origin not allowed">>}

\* C19 as stated: a POST past the origin check whose redirect URL has a
\* scheme and host outside the allow-list is answered 403, whatever its
\* other fields.
C19_ForeignRedirectForbidden ==
    \A t \in Handlers :
        PastOriginCheck(t) /\ ForeignRedirect(TheReq(t)) => resp[t][1] = 403

\* C19, amended: the same for a request whose form ParseForm can parse; a
\* request whose form cannot be parsed is answered 400 before the redirect
\* URL is looked at.
C19_ForeignRedirectForbiddenIfParsed ==
    \A t \in Handlers :
        PastOriginCheck(t) /\ ForeignRedirect(TheReq(t)) =>
            IF TheReq(t).formOK
            THEN resp[t] = <<403, <<>>, "Forbidden: redirect URL origin not allowed">>
            ELSE resp[t] = <<400, <<>>, "Bad request">>

\* A request with a foreign redirect URL, no name, no body and an invalid
\* slug was answered 403.
C19_Witness ==
    /\ PastOriginCheck(1) /\ ForeignRedirect(TheReq(1)) /\ TheReq(1).formOK
    /\ TheReq(1).name = <<>> /\ TheReq(1).body[1] = <<>> /\ ~isValidSlug(TheReq(1).slug)
    /\ resp[1][1] = 403

\* The Origin header of r, or without one the scheme and host of its
\* Referer, is an entry of the allow-list.
OriginMatches(r) ==
    IF r.origin # <<>> THEN r.origin \in cfg.AllowedOrigins
    ELSE /\ r.referer # <<>> /\ parses(r.referer)
         /\ SchemeHost(r.referer) \in cfg.AllowedOrigins

\* C20: a POST is admitted past the origin check iff its Origin header, or
\* without one the scheme and host of its Referer, is an allow-list entry;
\* otherwise it is answered 403, whatever its form (parsable or not).
C20_OriginOrReferer ==
    \A t \in Handlers :
        inbox[t] # {} /\ pc[t] # "h_idle" /\ TheReq(t).method = "POST" =>
            /\ PastOriginCheck(t) <=> OriginMatches(TheReq(t))
            /\ ~OriginMatches(TheReq(t)) =>
                   resp[t] = <<403, <<>>, "Forbidden: origin not allowed">>

\* A POST without Origin whose Referer is written HTTPS://site/p was
\* admitted, and its comment file written.
C20_Witness ==
    /\ TheReq(1).origin = <<>> /\ TheReq(1).referer = UpperURL
    /\ pc[1] = "cap_lock"

\* A form value that is empty after trimming: nothing but white space.
Blank(s) == \A i \in 1..Len(s) : s[i] = " "

\* The request of t reached the checks of its form values: it is a POST
\* admitted past the origin check and its form was parsed.
FormRead(t) == PastOriginCheck(t) /\ RawReq(t).formOK

MissingFields == "Missing required fields (name, body, slug, url)"

\* C21: of a request whose form values are looked at, when name, body or
\* slug is empty after trimming and the redirect URL is present and allowed,
\* the response is a 303 to that URL carrying comment_error; when the
\* redirect URL is empty after trimming, the response is a plain 400 without
\* a Location.
C21_MissingFieldsResponse ==
    \A t \in Handlers : FormRead(t) =>
        LET raw == RawReq(t)
            u == TheReq(t).url
        IN /\ Blank(raw.url) => resp[t] = <<400, <<>>, MissingFields>>
           /\ /\ ~Blank(raw.url) /\ parses(u) /\ SchemeHost(u) \in cfg.AllowedOrigins
              /\ Blank(raw.name) \/ Blank(raw.body[1]) \/ Blank(raw.slug)
              => resp[t] = <<303, urlString(u), MissingFields>>

\* A request whose name is a single space, with a body, a slug and the
\* allowed redirect URL, was answered with the 303 carrying comment_error.
C21_Witness ==
    /\ FormRead(1) /\ RawReq(1).name = <<" ">> /\ RawReq(1).body = BaseReq.body
    /\ RawReq(1).slug = <<" ", "p", " ">> /\ RawReq(1).url = GoodURL
    /\ resp[1] = <<303, GoodURL, MissingFields>>

\* The characters the slug of a comment may be made of.
SlugChars == Lower \cup Upper \cup Digits \cup {"-", "_"}

\* ServeHTTP let the slug of t's request through / turned it down.
SlugAccepted(t) == pc[t] = "h_write" /\ resp[t] = NoResp
SlugRejected(t) ==
    /\ pc[t] = "h_done"
    /\ resp[t] = <<303, GoodURL, IF TheReq(t).slug = <<>> THEN MissingFields ELSE "Invalid slug">>

\* C22: isValidSlug is true exactly of the strings that are not empty and
\* made only of ASCII letters, digits, "-" and "_"; it is false of the empty
\* string, of a string that contains "..", "/" or "\", and of a string with
\* any other character.
C22_ValidSlugExactly ==
    \A t \in Handlers : inbox[t] # {} /\ pc[t] # "h_idle" =>
        LET s == TheReq(t).slug
        IN /\ isValidSlug(s) <=> s # <<>> /\ \A i \in 1..Len(s) : s[i] \in SlugChars
           /\ \/ s = <<>>
              \/ \E i \in 1..(Len(s) - 1) : s[i] = "." /\ s[i + 1] = "."
              \/ \E i \in 1..Len(s) : s[i] \in {"/", "\\"} \/ s[i] \notin SlugChars
              => ~isValidSlug(s)
           /\ IF isValidSlug(s) THEN SlugAccepted(t) ELSE SlugRejected(t)

\* The slug "a ~" (no dots, no separators, two characters outside the
\* class) was turned down, its request answered "Invalid slug".
C22_Witness ==
    /\ TheReq(1).slug = <<"a", " ", "~">>
    /\ resp[1] = <<303, GoodURL, "Invalid slug">>

\* Handler t has called os.WriteFile for its comment file.
FileWritten(t) == t \in Handlers /\ path[t] # NoPath /\ pc[t] \notin {"h_idle", "h_write"}

\* C23: the file of a comment lies directly inside <CommentsPath>/<slug>/ of
\* the working copy, slug being the request's slug, which passed isValidSlug;
\* whatever the slug and the reply_to of a request, no file of the working
\* tree lies outside CommentsPath.
C23_FilesUnderCommentsRoot ==
    /\ \A t \in Handlers : FileWritten(t) =>
          LET slug == TheReq(t).slug
          IN /\ isValidSlug(slug)
             /\ Len(relPath(path[t])) = Len(CommentsPath) + 2
             /\ SubSeq(relPath(path[t]), 1, Len(CommentsPath) + 1) = CommentsPath \o <<slug>>
    /\ \A p \in Paths : wt[p] # NoFile =>
          /\ Len(relPath(p)) = Len(CommentsPath) + 2
          /\ SubSeq(relPath(p), 1, Len(CommentsPath)) = CommentsPath

\* The comment of a request with slug " p " is a file of _data/comments/p.
C23_Witness ==
    /\ RawReq(1).slug = <<" ", "p", " ">> /\ pc[1] = "cap_lock"
    /\ wt[path[1]] # NoFile
    /\ relPath(path[1]) = <<<<"_data">>, <<"comments">>, <<"p">>,
                            <<ToString(path[1][2]), "-", ToString(path[1][3]), ".yml">>>>

\* C24: every commit CommitAndPush creates, in a run that cloned and in a
\* run that found a working copy, has the author name staticomment.
C24_CommitsUseFixedIdentity == repo.authors \subseteq {"staticomment"}

\* The request of t passes every check ServeHTTP makes before it looks for
\* the post: method, origin, form, redirect URL, required fields, body
\* length, slug and reply_to.
PassesEarlierChecks(t) ==
    LET r == TheReq(t)
    IN /\ r.method = "POST" /\ OriginMatches(r) /\ r.formOK
       /\ r.url # <<>> /\ parses(r.url) /\ SchemeHost(r.url) \in cfg.AllowedOrigins
       /\ ~Blank(r.name) /\ ~Blank(r.body[1]) /\ ~Blank(r.slug)
       /\ r.body[2] <= defaultMaxBodyLen
       /\ isValidSlug(r.slug)
       /\ r.replyTo = <<>> \/ isValidSlug(r.replyTo)

\* The posts directory holds a file named <slug>.<anything>.
HasPostFile(slug) ==
    \E f \in cfg.Posts :
        /\ Len(f) >= Len(slug) + 1
        /\ \A i \in 1..Len(slug) : f[i] = slug[i]
        /\ f[Len(slug) + 1] = "."

CapOrder == <<"pull", "add", "commit", "push">>

\* C26: the subprocesses of a CommitAndPush call exit in the order pull
\* --rebase, add of the call's path, commit with the message "Add comment on
\* <slug>", push; when the pull, the add or the commit fails, the call runs
\* nothing more and returns an error.
C26_StepsInOrder ==
    \A t \in Handlers \cup Callers : InCommitAndPush(t) =>
        LET L == log[t]
        IN /\ \A i \in 1..Len(L) : i <= 4 => L[i][1] = CapOrder[i]
           /\ \A i \in 1..Len(L) : i <= 3 /\ ~L[i][2] =>
                 /\ Len(L) = i /\ ~Running(t)
                 /\ pc[t] \in {"ret", "returned"} /\ result[t] # "nil"
           /\ Len(L) >= 2 /\ L[2][2] /\ pc[t] \in CapPcs => index[path[t]] # NoFile
           /\ Len(L) >= 3 /\ L[3][2] /\ t \in Handlers =>
                 <<"Add comment on ">> \o TheReq(t).slug \in repo.messages

\* One call returned after its add failed, another is at its push after
\* pull, add and commit.
C26_Witness ==
    \E t, u \in Handlers :
        /\ pc[t] = "returned" /\ log[t] = <<<<"pull", TRUE>>, <<"add", FALSE>>>>
        /\ pc[u] = "cap_push" /\ Running(u)
        /\ log[u] = <<<<"pull", TRUE>>, <<"add", TRUE>>, <<"commit", TRUE>>>>
        /\ repo.messages = {<<"Add comment on ", "p">>}

\* Goroutine t runs ensureHostKeys in this step.
EnsureStep(t) == pc[t] = "clone_ensure" /\ pc'[t] = "clone_stat"

\* known_hosts holds a line for the host of cfg.GitRepo.
HostHasEntry == \E i \in 1..Len(knownHosts) : knownHosts[i][1] = extractHost(cfg.GitRepo)

\* C27: ensureHostKeys leaves known_hosts as it is when strict checking is
\* disabled and when the host has an entry; otherwise, when the scan
\* succeeds, known_hosts is its old content followed by the scanned keys,
\* and in every case each entry it held is still there.
C27_EnsureAppendsOnly ==
    [][\A t \in Threads : EnsureStep(t) =>
          LET ok == log'[t][Len(log'[t])] = <<"ensureHostKeys", TRUE>>
          IN /\ cfg.SSHInsecure \/ HostHasEntry => knownHosts' = knownHosts /\ ok
             /\ ~cfg.SSHInsecure /\ ~HostHasEntry /\ ok =>
                   \E out \in ScanOutputs(extractHost(cfg.GitRepo)) :
                       knownHosts' = knownHosts \o out
             /\ ~ok => knownHosts' = knownHosts
             /\ Len(knownHosts') >= Len(knownHosts)
             /\ \A i \in 1..Len(knownHosts) : knownHosts'[i] = knownHosts[i]]_vars

\* In strict mode, with only github.com in known_hosts, ensureHostKeys
\* scanned the host h1 and its key follows the line of github.com.
C27_Witness ==
    /\ ~cfg.SSHInsecure /\ pc[Main] = "clone_stat"
    /\ log[Main] = <<<<"ensureHostKeys", TRUE>>>>
    /\ knownHosts = <<<<<<"github.com">>, "old">>, <<<<"h1">>, "new">>>>

\* Goroutine t runs refreshHostKeys in this step.
RefreshStep(t) == pc[t] = "clone_refresh" /\ pc'[t] # "clone_refresh"

\* The line is one a scan of the host of cfg.GitRepo returns.
Scanned(line) ==
    \E out \in ScanOutputs(extractHost(cfg.GitRepo)) : \E k \in 1..Len(out) : out[k] = line

\* C28: after a successful refreshHostKeys known_hosts is exactly the output
\* of the scan, without any line it held before that the scan did not
\* return; when the scan fails, refreshHostKeys returns an error and
\* known_hosts is as it was.
C28_RefreshOverwrites ==
    [][\A t \in Threads : RefreshStep(t) =>
          LET e == log'[t][Len(log'[t])]
          IN /\ e[1] = "refreshHostKeys"
             /\ e[2] =>
                   /\ knownHosts' \in ScanOutputs(extractHost(cfg.GitRepo))
                   /\ \A i \in 1..Len(knownHosts) :
                         ~Scanned(knownHosts[i]) =>
                             \A j \in 1..Len(knownHosts') : knownHosts'[j] # knownHosts[i]
             /\ ~e[2] => knownHosts' = knownHosts /\ pc'[t] = "ret" /\ result'[t] # "nil"]_vars

\* After a scan that failed in ensureHostKeys and a failed clone,
\* refreshHostKeys succeeded: the scanned key of h1 is the only line of
\* known_hosts.
C28_Witness ==
    /\ pc[Main] = "clone_rm"
    /\ log[Main] = <<<<"ensureHostKeys", FALSE>>, <<"clone", FALSE>>, <<"refreshHostKeys", TRUE>>>>
    /\ knownHosts = <<<<<<"h1">>, "new">>>>

\* Goroutine t reads or writes known_hosts in this step: it runs
\* ensureHostKeys or refreshHostKeys.
TrustAccess(t) ==
    /\ Len(log'[t]) = Len(log[t]) + 1
    /\ log'[t][Len(log'[t])][1] \in {"ensureHostKeys", "refreshHostKeys"}

\* C29: the program reads and writes known_hosts only in steps of a Clone
\* call that holds GitRepo.mu; a goroutine in Pull or in CommitAndPush
\* neither reads nor changes it.
C29_TrustStoreUnderCloneLock ==
    [][/\ (knownHosts' # knownHosts \/ \E t \in Threads : TrustAccess(t)) =>
             \E t \in Threads :
                 /\ TrustAccess(t)
                 /\ pc[t] \in ClonePcs /\ mu = t /\ mu' = t
       /\ \A t \in Threads :
             pc[t] \in PullPcs \cup CapPcs \cup {"pull_lock", "cap_lock"} /\ pc'[t] # pc[t] =>
                 ~TrustAccess(t) /\ knownHosts' = knownHosts]_vars

\* A Clone call holding the mutex has scanned the host's key into
\* known_hosts while a CommitAndPush call waits for the mutex.
C29_Witness ==
    \E t, u \in Callers :
        /\ pc[t] = "clone_stat" /\ mu = t /\ log[t] = <<<<"ensureHostKeys", TRUE>>>>
        /\ knownHosts = <<<<<<"h1">>, "new">>>>
        /\ pc[u] = "cap_lock"

\* Goroutine t is in a Clone call that finds a working copy on disk.
ReusePos(t) ==
    \/ pc[t] \in {"clone_ensure", "clone_stat"} /\ repo.git
    \/ pc[t] = "clone_pull"

\* What such a call does apart from known_hosts: it goes from the check of
\* .git to the pull and returns; it starts no clone, leaves the working
\* directory in place, and returns what the pull returned.
OnlyPulls(t) ==
    /\ pc'[t] \in {"clone_ensure", "clone_stat", "clone_pull", "ret"}
    /\ \A r \in running' : r.t = t => r.cmd = "pull"
    /\ repo'.dir /\ repo'.git
    /\ pc'[t] = "ret" =>
          /\ pc[t] = "clone_pull"
          /\ result'[t] = IF log'[t][Len(log'[t])] = <<"pull", TRUE>> THEN "nil" ELSE "git pull"

\* ensureHostKeys reads known_hosts: strict mode, and a host in the URL.
ReadsKnownHosts == ~cfg.SSHInsecure /\ extractHost(cfg.GitRepo) # <<>>

\* C30 as stated: a Clone that finds a working copy only pulls; it starts
\* no clone, does not remove or recreate the working directory, neither
\* reads nor changes known_hosts, and returns the result of the pull.
C30_ReuseOnlyPulls ==
    [][\A t \in Threads : ReusePos(t) =>
          /\ OnlyPulls(t)
          /\ knownHosts' = knownHosts
          /\ ~(pc[t] = "clone_ensure" /\ pc'[t] = "clone_stat" /\ ReadsKnownHosts)]_vars

\* C30, amended: such a Clone runs ensureHostKeys first, which may read
\* known_hosts and append the scanned keys to it, and then only pulls;
\* known_hosts is never overwritten.
C30_ReuseEnsuresThenPulls ==
    [][\A t \in Threads : ReusePos(t) =>
          /\ OnlyPulls(t)
          /\ pc[t] # "clone_ensure" => knownHosts' = knownHosts
          /\ cfg.SSHInsecure \/ HostHasEntry => knownHosts' = knownHosts
          /\ Len(knownHosts') >= Len(knownHosts)
          /\ \A i \in 1..Len(knownHosts) : knownHosts'[i] = knownHosts[i]]_vars

\* A start that found a working copy: ensureHostKeys appended the key of h1
\* to known_hosts, the pull succeeded and Clone returned nil.
C30_Witness ==
    /\ pc[Main] = "returned" /\ result[Main] = "nil" /\ repo.git
    /\ log[Main] = <<<<"ensureHostKeys", TRUE>>, <<"pull", TRUE>>>>
    /\ knownHosts = <<<<<<"github.com">>, "old">>, <<<<"h1">>, "new">>>>

\* This step is an Allow call; TheCall is the call and its result.
AllowStep == Len(rl'.hist) = Len(rl.hist) + 1
TheCall == rl'.hist[Len(rl'.hist)]

\* The time stamps of a ledger entry that are inside the window at now.
InWindow(timestamps, now) == {i \in 1..Len(timestamps) : timestamps[i] > now - rl.window}
InWindowTimes(timestamps, now) == {timestamps[i] : i \in InWindow(timestamps, now)}

\* The result of call j is a function of the earlier calls for its own
\* address alone: it is true iff fewer than max of them were accepted inside
\* the window that ends at call j.
OwnHistoryDecides ==
    rl.max > 0 =>
        \A j \in 1..Len(rl.hist) :
            rl.hist[j].ok <=>
                Cardinality({i \in Accepted(j) : rl.hist[i].at > rl.hist[j].at - rl.window})
                    < rl.max

\* C31: an Allow call that returns false records nothing, the time stamps of
\* its address inside the window are the same before and after it; no Allow
\* call changes the ledger entry of another address, and the result of an
\* Allow call depends on the calls for its own address only.
C31_RejectRecordsNothing ==
    /\ []OwnHistoryDecides
    /\ [][AllowStep =>
             /\ ~TheCall.ok =>
                   /\ InWindowTimes(rl'.entries[TheCall.ip], clock)
                         = InWindowTimes(rl.entries[TheCall.ip], clock)
                   /\ Cardinality(InWindow(rl'.entries[TheCall.ip], clock))
                         = Cardinality(InWindow(rl.entries[TheCall.ip], clock))
             /\ \A other \in IPs \ {TheCall.ip} : rl'.entries[other] = rl.entries[other]]_vars

\* A call for one address was rejected with max time stamps in its entry,
\* and a later call for another address, at the same instant, was accepted.
C31_Witness ==
    /\ rl.max > 0
    /\ \E j, k \in 1..Len(rl.hist) :
        /\ j < k /\ rl.hist[j].ip # rl.hist[k].ip /\ rl.hist[j].at = rl.hist[k].at
        /\ ~rl.hist[j].ok /\ rl.hist[k].ok
        /\ Len(rl.entries[rl.hist[j].ip]) = rl.max

\* This step is a round of the cleanup loop.
SweepStep == rl.cleanup = "ticking" /\ rl'.next # rl.next

\* The accepted calls for ip whose time is inside the window at now.
AcceptedInWindow(ip, now) ==
    {j \in 1..Len(rl.hist) :
        rl.hist[j].ip = ip /\ rl.hist[j].ok /\ rl.hist[j].at > now - rl.window}

\* What a later Allow call for ip counts, the time stamps of its entry
\* inside the window, is given by the accepted calls alone: it is the same
\* in a run with sweeps and in one without.
SweepsInvisible ==
    rl.max > 0 =>
        \A ip \in IPs :
            /\ Cardinality(InWindow(rl.entries[ip], clock))
                  = Cardinality(AcceptedInWindow(ip, clock))
            /\ InWindowTimes(rl.entries[ip], clock)
                  = {rl.hist[j].at : j \in AcceptedInWindow(ip, clock)}

\* C32: a sweep removes exactly the time stamps not newer than now minus the
\* window and deletes exactly the keys of the addresses left without a time
\* stamp; a sweep at any point changes the result of no later Allow call.
C32_SweepRemovesExpiredOnly ==
    /\ []SweepsInvisible
    /\ [][SweepStep =>
             /\ \A ip \in IPs :
                   /\ rl'.entries[ip] =
                         SelectSeq(rl.entries[ip], LAMBDA ts : ~(ts <= clock - rl.window))
                   /\ ip \in rl'.keys <=>
                         ip \in rl.keys /\ \E i \in 1..Len(rl.entries[ip]) :
                                               rl.entries[ip][i] > clock - rl.window
             /\ rl'.hist = rl.hist]_vars

\* A sweep has deleted the key of an address one of whose calls had been
\* accepted, while another address keeps its key and a time stamp.
C32_Witness ==
    /\ rl.cleanup = "ticking" /\ rl.next > rl.window
    /\ \E ip, other \in IPs :
        /\ ip \notin rl.keys /\ \E j \in 1..Len(rl.hist) : rl.hist[j].ip = ip /\ rl.hist[j].ok
        /\ other \in rl.keys /\ rl.entries[other] # <<>>

\* checkBodyContent was called for the body of t's request and returned an
\* error message.
BodyChecked(t) == inbox[t] # {} /\ pc[t] = "h_done"
BodyRejected(t) == resp[t][1] # <<>>

\* The links and the blocked words of a body, as the claim counts them.
Links(body) == {i \in 1..Len(body) : body[i] \in {"http://", "https://"}}
Blocked(body) ==
    \E re \in cfg.BlockedPatterns : \E i \in 1..Len(body) : FoldCase(body[i]) = FoldCase(re)

\* C33 as stated: checkBodyContent rejects a body iff it holds more than the
\* configured maximum of links or matches a blocked pattern, for every
\* maximum from zero.
C33_RejectsLinksAndPatterns ==
    \A t \in Handlers : BodyChecked(t) =>
        LET body == RawReq(t).body[1]
        IN BodyRejected(t) <=> Cardinality(Links(body)) > cfg.MaxLinks \/ Blocked(body)

\* C33, amended: the same for a maximum above zero; with the maximum zero
\* the links are not counted, and a body is rejected iff it matches a
\* blocked pattern.
C33_RejectsLinksWhenPositive ==
    \A t \in Handlers : BodyChecked(t) =>
        LET body == RawReq(t).body[1]
        IN BodyRejected(t) <=>
              \/ cfg.MaxLinks > 0 /\ Cardinality(Links(body)) > cfg.MaxLinks
              \/ Blocked(body)

\* With the maximum 2 and the pattern SPAM: a body of three links was
\* rejected for its links.
C33_Witness ==
    /\ BodyChecked(1) /\ cfg.MaxLinks = 2 /\ cfg.BlockedPatterns = {"SPAM"}
    /\ RawReq(1).body[1] = <<"http://", "https://", "x", "http://">>
    /\ resp[1] = <<<<"Too many links (max %d)", 2>>>>

\* A string of slug characters only, and not empty.
WellFormed(s) == s # <<>> /\ \A i \in 1..Len(s) : s[i] \in SlugChars

\* The answer to a request with redirect URL u that fails a check of its
\* form values: the redirect carrying msg, or a plain 400 without a URL
\* to redirect to.
Refusal(u, msg) ==
    IF u = <<>> \/ ~parses(u) THEN <<400, <<>>, msg>> ELSE <<303, urlString(u), msg>>

\* The guard checks in their listed order, each with whether request r fails
\* it and the response it gives.
GuardChecks(r) ==
    << <<r.method # "POST", <<405, <<>>, "Method not allowed">> >>,
       <<~OriginMatches(r), <<403, <<>>, "Forbidden: origin not allowed">> >>,
       <<r.url # <<>> /\ ~(parses(r.url) /\ SchemeHost(r.url) \in cfg.AllowedOrigins),
         <<403, <<>>, "Forbidden: redirect URL origin not allowed">> >>,
       <<Blank(r.name) \/ Blank(r.body[1]) \/ Blank(r.slug) \/ Blank(r.url),
         Refusal(r.url, MissingFields)>>,
       <<r.body[2] > defaultMaxBodyLen, Refusal(r.url, "Comment body too long")>>,
       <<~WellFormed(r.slug), Refusal(r.url, "Invalid slug")>>,
       <<r.replyTo # <<>> /\ ~WellFormed(r.replyTo), Refusal(r.url, "Invalid reply_to")>>,
       <<cfg.PostsPath # "" /\ ~HasPostFile(r.slug), Refusal(r.url, "Post not found")>> >>

\* The checks r fails, by their place in the list.
Failing(r) == {i \in 1..Len(GuardChecks(r)) : GuardChecks(r)[i][1]}
FirstFailing(r) == CHOOSE i \in Failing(r) : \A j \in Failing(r) : i <= j

C35_NoRebaseAtReturn ==
    \A t \in Threads : pc[t] = "ret" => ~repo.rebase

\* The "git commit" of t's CommitAndPush exits 0 in this step.
CommitStep(t) ==
    /\ pc[t] = "cap_commit"
    /\ Len(log'[t]) = Len(log[t]) + 1
    /\ log'[t][Len(log'[t])] = <<"commit", TRUE>>

\* C36: the commit a CommitAndPush(path, slug) creates holds exactly one
\* record that its parent does not, the record of the call's own submission
\* in the file at path; what another submission has written and not yet
\* committed, or an earlier failed call left staged, is not in it.
C36_CommitHoldsOnlyItsFile ==
    [][\A t \in Handlers : CommitStep(t) =>
          /\ head[path[t]] = NoFile
          /\ head'[path[t]] = Comment(req[t].r, req[t].date)
          /\ \A p \in Paths : p # path[t] => head'[p] = head[p]]_vars

\* C37: in a call that has returned, every pull --rebase of the retry loop
\* (one that follows a failed push) that exited 0 is followed by another
\* push of the same call.
C37_PullIsFollowedByPush ==
    \A t \in Threads : Done(t) =>
        \A i \in 2..Len(log[t]) :
            log[t][i] = <<"pull", TRUE>> /\ log[t][i - 1] = <<"push", FALSE>> =>
                i < Len(log[t]) /\ log[t][i + 1][1] = "push"

\* C38: for every window and maximum LoadConfig accepts (both from 0, a
\* window of 0 with a maximum above 0 included), the rate limiter and its
\* background sweep never reach a crash: the process stays alive and Allow
\* goes on returning.
C38_LimiterNeverCrashes == rl.cleanup # "panicked"

====
